---- MODULE Spec2Model ----
(***************************************************************************)
(* Verification model of the lunaris-installer orchestrator.               *)
(*                                                                         *)
(*   SpecQueue : messages.Queue (pkg/tui/messages/queue.go), Add / Clear   *)
(*               called from several goroutines under the queue's mutex.   *)
(*   Spec      : the installation session of pkg/tui (commands.go,         *)
(*               update.go, router.go): the bubbletea program's Model, the *)
(*               commands in flight with the Model object each one is      *)
(*               bound to, the router, and the package-manager             *)
(*               subprocesses started by Helper.InstallPackages.           *)
(*   SpecIP    : one call of Helper.InstallPackages (unnamed/part_006 and  *)
(*               pkg/aur/helper.go): the subprocess and the processes it   *)
(*               forks, cmd.Wait, the output readers, the 30-minute timer  *)
(*               and the final select.                                     *)
(*   SpecUI    : the orchestrator of package ui (ui/installation.go):      *)
(*               helper step, batches of packages, the password prompt.    *)
(*   SpecDotfiles : one run of installDotfiles (pkg/tui/commands.go).      *)
(*   SpecInstall  : calls of Helper.Install, one after another.            *)
(*   SpecSteps    : startInstallation's count of steps, as a function of   *)
(*               the selection and of config.ConfigDirs.                   *)
(*   SpecClassify : one output line through the readers of InstallPackages *)
(*               and through Model.AddMessage.                             *)
(*   SpecLists    : the length of the messages slice of Helper.Install and *)
(*               of Helper.InstallPackages while their readers run.        *)
(*   SpecDrain    : a subprocess writing to its stdout and stderr pipes    *)
(*               and the goroutines that read them, for each function that *)
(*               starts a subprocess with pipes.                           *)
(*   SpecOrder    : two lines of one stream among the others, through the  *)
(*               readers' appends and truncations of the messages slice.   *)
(*   SpecProgress : installProgress against totalSteps through the steps   *)
(*               of installAURHelper and handleInstallProgress.            *)
(*   SpecSnapshot : the Model of NewModel that the page updaters and the   *)
(*               router's transitions are bound to, next to the Model the  *)
(*               program holds, from the first key to the first step.      *)
(*   SpecClose    : installDotfiles' updateCh, its two pipe readers, its   *)
(*               consumer and the close of the channel.                    *)
(*   SpecCopy     : utils.CopyDirWithLowMemory (unnamed/part_010): the     *)
(*               walker, the tasks channel and the workers.                *)
(*                                                                         *)
(* In Spec a command is "attached" while the program's Model is the very   *)
(* object the command writes to (handleInstallProgress returns a pointer   *)
(* to it), and "detached" once Update has returned a Model by value: the   *)
(* command's later writes are then made on an object the program no        *)
(* longer holds.  Of a detached object only the fields the command reads   *)
(* are kept (Own).  Page updaters and the router's transition are applied  *)
(* to the program's current Model.  The keys pressed in one run are        *)
(* counted and bounded by MaxKeys.                                         *)
(***************************************************************************)
EXTENDS Integers, Sequences, FiniteSets, TLC

VARIABLES
    qMaxSize,     \* Queue.maxSize
    qMessages,    \* Queue.messages
    qMu,          \* Queue.mu: 0 = unlocked, g = held by goroutine g
    gpc,          \* position of each goroutine inside Queue.Add
    qAdded,       \* history: every message appended since the last Clear
    qNext         \* history: arrival number of the next message

queueVars == <<qMaxSize, qMessages, qMu, gpc, qAdded, qNext>>

VARIABLES
    model,        \* the Model the bubbletea program currently holds
    chains,       \* the commands (goroutines) in flight, each with its *Model
    router,       \* *Router: currentPage and history, shared by every copy
    running,      \* package-manager subprocesses alive (by starting chain)
    currentCmd,   \* aur.currentCmd / aur.stdinPipe: the active-process slot
    helperInst,   \* exec.LookPath(h.Command) succeeds (Helper.IsInstalled)
    orphans,      \* Helper.Install goroutines whose installAURHelper returned
    skippedPackages, \* Model.skippedPackages, a map every copy shares
    sessions,     \* number of startInstallation runs so far
    keys,         \* number of key presses so far
    exit,         \* "no", or how the program ended: "quit" or "panic"
    hist          \* history of the session, read only by the properties

sessionVars == <<model, chains, router, running, currentCmd, helperInst,
                 orphans, skippedPackages, sessions, keys, exit, hist>>

VARIABLES
    ipVariant,    \* the InstallPackages studied: "pipes" (unnamed/part_006),
                  \* "buffers" (pkg/aur/helper.go)
    ipPc,         \* position of the caller inside InstallPackages
    ipChild,      \* the process of cmd.Start(): "none", "run", "exited", "failed", "killed"
    ipGroup,      \* live processes forked by the child; they hold its output pipes
    ipResultCh,   \* resultCh: "empty", or the result of cmd.Wait(), "nil" or "err"
    ipConflict,   \* a line with "conflict" was read (conflictCh is full)
    ipReadEnds,   \* the parent's ends of the output pipes: "open", "closed"
    ipStdin,      \* the parent's end of cmd.StdinPipe(): "open", "closed"
    ipOutputDone, \* outputDone is closed
    ipTimer,      \* time.After(30 * time.Minute) has fired
    ipResult      \* InstallPackages returned: "none", "success", "conflict",
                  \* "failed", "timedout"

ipVars == <<ipVariant, ipStdin, ipPc, ipChild, ipGroup, ipResultCh, ipConflict, ipReadEnds,
            ipOutputDone, ipTimer, ipResult>>

VARIABLES
    uiPc,         \* package ui: where its continueInstallation command is
    uiM,          \* package ui: the Model
    uiOut,        \* package ui: the message the command returned
    uiLeft,       \* packagesToInstall[i:] of the batch loop
    uiBatch,      \* what is left of the batch installed one by one
    uiInstalled,  \* the packages pacman lists as installed
    uiHelper,     \* m.aurHelper.IsInstalled()
    uiCloned,     \* the directory Lunaric exists
    uiStep,       \* history: the step that ended last
    uiAuthFails   \* history: authentication failures of uiStep in a row

uiVars == <<uiPc, uiM, uiOut, uiLeft, uiBatch, uiInstalled, uiHelper, uiCloned, uiStep,
            uiAuthFails>>

VARIABLES
    dfPc,         \* position inside installDotfiles
    dfOldDir,     \* ~/HyprLuna exists
    dfCloneOk,    \* git clone has exited with status 0
    dfFiles,      \* os.ReadDir of the checkout: "unreadable", "empty", "some"
    dfExisting,   \* the entries of config.ConfigDirs the checkout holds
    dfTodo,       \* existingDirs still to copy
    dfAttempted,  \* history: the directories the copy loop has taken up
    dfProgress,   \* m.installProgress
    dfResult      \* what installDotfiles returned: "none", "complete", or the error

dfVars == <<dfPc, dfOldDir, dfCloneOk, dfFiles, dfExisting, dfTodo, dfAttempted,
            dfProgress, dfResult>>

VARIABLES
    hiPc,         \* position inside Helper.Install, "idle" between two calls
    hiOnPath,     \* exec.LookPath finds the helper's command
    hiMessages,   \* the messages Install wrote itself (of the latest call)
    hiErr,        \* the error the latest call returned, "nil" for none
    hiTempDirs,   \* temporary directories that exist
    hiStarted,    \* subprocesses the latest call has started
    hiCalls       \* calls made

hiVars == <<hiPc, hiOnPath, hiMessages, hiErr, hiTempDirs, hiStarted, hiCalls>>

VARIABLES
    tsPc,         \* "ready" before startInstallation's command ran, "started" after
    tsPackages,   \* how many packages getSelectedPackages returns
    tsDirs,       \* len(config.ConfigDirs)
    tsModel       \* the Model the command is bound to

tsVars == <<tsPc, tsPackages, tsDirs, tsModel>>

VARIABLES
    clPc,           \* "line" before the reader scans the line, "scanned", "added"
    clLine,         \* the output line: for each token whether and how it occurs
    clConflictSent, \* the reader sent the line on conflictCh
    clKept,         \* the reader appended the line to messages
    clType          \* the type AddMessage gave the line, "none" before

clVars == <<clPc, clLine, clConflictSent, clKept, clType>>

VARIABLES
    mlFn,         \* the function that runs: "Install" or "InstallPackages"
    mlLen,        \* len(messages)
    mlCount,      \* messageCount of InstallPackages
    mlPc,         \* position of the stdout and of the stderr reader
    mlLocal,      \* len of the slice a reader of Install read before it appends
    mlReturned    \* the function has returned messages

mlVars == <<mlFn, mlLen, mlCount, mlPc, mlLocal, mlReturned>>

VARIABLES
    drFn,         \* whose subprocess: "InstallClone", "InstallBuild",
                  \* "InstallPackages", "DotfilesClone"
    drChild,      \* the subprocess: "run", "exited", "killed"
    drToWrite,    \* what the subprocess has yet to write to each stream
    drPipe,       \* what each pipe holds, PipeCap when full
    drReader      \* per stream: "reading", "waiting" (behind the other stream
                  \* in a MultiReader), "eof", "stopped" (the scanner gave up)

drVars == <<drFn, drChild, drToWrite, drPipe, drReader>>

VARIABLES
    orFn,         \* the function that runs: "Install" or "InstallPackages"
    orTracked,    \* the stream the two lines are written to
    orMessages,   \* the messages slice: "first", "second" (two lines of
                  \* orTracked) or "other"
    orCount,      \* messageCount of InstallPackages
    orPc,         \* position of the stdout and of the stderr reader
    orLocal,      \* the slice a reader of Install is about to store
    orNext,       \* the followed line orTracked writes next, or "done"
    orStale,      \* writes of the slice by the other reader since a reader's read
    orTruncated   \* the slice has been truncated

orVars == <<orFn, orTracked, orMessages, orCount, orPc, orLocal, orNext, orStale,
           orTruncated>>

VARIABLES
    pgPc,         \* helper step: "continue", "select", "deliver", "packages", "failed"
    pgM,          \* the Model's installProgress, totalSteps, aurHelperInstalled
    pgMsg         \* Progress and Total of the InstallProgressMsg returned

pgVars == <<pgPc, pgM, pgMsg>>

VARIABLES
    snPage,       \* Router.currentPage
    snHistory,    \* Router.history
    snProg,       \* the Model the program holds
    snLocal,      \* NewModel's variable m, which the transition closures capture
    snSelected,   \* entries of the selectedOptions map, shared by every copy
    snCmds,       \* commands started and messages returned, not yet handled
    snStep,       \* the first installation step started: "none", "helper", "panic"
    snSeen,       \* history: packagesToInstall as continueInstallation found it
    snSubmitted,  \* history: the password prompt was answered
    snKeys        \* keys pressed

snVars == <<snPage, snHistory, snProg, snLocal, snSelected, snCmds, snStep, snSeen,
            snSubmitted, snKeys>>

VARIABLES
    ucMain,       \* installDotfiles: "wait", "drain", "copy", "returned"
    ucChild,      \* git clone: "run", "exited"
    ucPipe,       \* lines in each pipe, not yet read
    ucPipeOpen,   \* the parent's read ends are open (cmd.Wait closes them)
    ucBuf,        \* lines each scanner holds in its buffer
    ucReader,     \* each reader: "scan", "send", "done"
    ucChan,       \* messages in updateCh
    ucClosed,     \* close(updateCh) has been executed
    ucLeft,       \* updates installDotfiles itself has still to send
    ucPanic       \* a goroutine sent on the closed channel

ucVars == <<ucMain, ucChild, ucPipe, ucPipeOpen, ucBuf, ucReader, ucChan, ucClosed,
            ucLeft, ucPanic>>

VARIABLES
    cpTree,       \* the tasks in the order of filepath.Walk: isDir, parent (0: src)
    cpWorkers,    \* numWorkers
    cpWalker,     \* the calling goroutine: "walk", "wait", "returned"
    cpSent,       \* tasks sent on the channel
    cpTaken,      \* tasks received from the channel
    cpClosed,     \* close(tasks) has been executed
    cpWorker,     \* each worker: pc "idle", "busy", "exited", and its task
    cpErrors,     \* errors in errCh
    cpWalkErr,    \* filepath.Walk returned an error
    cpResult      \* what CopyDirWithLowMemory returned: "none", "nil", "error"

cpVars == <<cpTree, cpWorkers, cpWalker, cpSent, cpTaken, cpClosed, cpWorker, cpErrors,
            cpWalkErr, cpResult>>

vars == <<queueVars, sessionVars, ipVars, uiVars, dfVars, hiVars, tsVars, clVars, mlVars, drVars, orVars, pgVars, snVars, ucVars, cpVars>>

\* What the steps of one part of the program leave alone.
notQueue == <<sessionVars, ipVars, uiVars, dfVars, hiVars, tsVars, clVars, mlVars, drVars, orVars, pgVars, snVars, ucVars, cpVars>>
notSession == <<queueVars, ipVars, uiVars, dfVars, hiVars, tsVars, clVars, mlVars, drVars, orVars, pgVars, snVars, ucVars, cpVars>>
notIP == <<queueVars, sessionVars, uiVars, dfVars, hiVars, tsVars, clVars, mlVars, drVars, orVars, pgVars, snVars, ucVars, cpVars>>
notUI == <<queueVars, sessionVars, ipVars, dfVars, hiVars, tsVars, clVars, mlVars, drVars, orVars, pgVars, snVars, ucVars, cpVars>>
notDF == <<queueVars, sessionVars, ipVars, uiVars, hiVars, tsVars, clVars, mlVars, drVars, orVars, pgVars, snVars, ucVars, cpVars>>
notHI == <<queueVars, sessionVars, ipVars, uiVars, dfVars, tsVars, clVars, mlVars, drVars, orVars, pgVars, snVars, ucVars, cpVars>>
notTS == <<queueVars, sessionVars, ipVars, uiVars, dfVars, hiVars, clVars, mlVars, drVars, orVars, pgVars, snVars, ucVars, cpVars>>
notCL == <<queueVars, sessionVars, ipVars, uiVars, dfVars, hiVars, tsVars, mlVars, drVars, orVars, pgVars, snVars, ucVars, cpVars>>
notML == <<queueVars, sessionVars, ipVars, uiVars, dfVars, hiVars, tsVars, clVars, drVars, orVars, pgVars, snVars, ucVars, cpVars>>
notDR == <<queueVars, sessionVars, ipVars, uiVars, dfVars, hiVars, tsVars, clVars, mlVars, orVars, pgVars, snVars, ucVars, cpVars>>
notOR == <<queueVars, sessionVars, ipVars, uiVars, dfVars, hiVars, tsVars, clVars, mlVars, drVars, pgVars, snVars, ucVars, cpVars>>
notPG == <<queueVars, sessionVars, ipVars, uiVars, dfVars, hiVars, tsVars, clVars, mlVars, drVars, orVars, snVars, ucVars, cpVars>>
notSN == <<queueVars, sessionVars, ipVars, uiVars, dfVars, hiVars, tsVars, clVars, mlVars, drVars, orVars, pgVars, ucVars, cpVars>>
notUC == <<queueVars, sessionVars, ipVars, uiVars, dfVars, hiVars, tsVars, clVars, mlVars, drVars, orVars, pgVars, snVars, cpVars>>
notCP == <<queueVars, sessionVars, ipVars, uiVars, dfVars, hiVars, tsVars, clVars, mlVars, drVars, orVars, pgVars, snVars, ucVars>>

-----------------------------------------------------------------------------
(* Bounds *)

MaxCap == 5          \* capacities 1..MaxCap are explored
MaxAdds == 9         \* messages added in one run
NumGoroutines == 2   \* goroutines calling Queue.Add concurrently

Goroutines == 1..NumGoroutines

-----------------------------------------------------------------------------
(* Sequence helpers (Go slice expressions) *)

\* s[:n]
Take(s, n) == SubSeq(s, 1, n)

\* s[len(s)-n:]
LastN(s, n) == SubSeq(s, Len(s) - n + 1, Len(s))

Count(s, x) == Cardinality({i \in 1..Len(s) : s[i] = x})

-----------------------------------------------------------------------------
(* messages.Queue *)

\* NewInfoMessage("... (messages truncated) ...", "system"); ordinary
\* messages are numbered 1, 2, ... in arrival order.
TruncationMarker == 0

\* A slip in the suffix size: the -1 that makes room for the marker is lost.
TruncateNoRoomForMarker(msgs, maxSize) ==
    LET firstQuarter == maxSize \div 4
        lastThreeQuarters == maxSize - firstQuarter
    IN  Take(msgs, firstQuarter) \o <<TruncationMarker>> \o LastN(msgs, lastThreeQuarters)

\* A slip in the prefix size: one entry too many in front, one too few behind.
TruncateLongPrefix(msgs, maxSize) ==
    LET firstQuarter == maxSize \div 4
        lastThreeQuarters == maxSize - firstQuarter - 1
    IN  IF lastThreeQuarters = 0
        THEN <<TruncationMarker>>
        ELSE Take(msgs, firstQuarter + 1) \o <<TruncationMarker>>
                 \o LastN(msgs, lastThreeQuarters - 1)

\* Queue.Add, the body of `if len(q.messages) > q.maxSize`.
Truncate(msgs, maxSize) ==
    LET firstQuarter == maxSize \div 4
        lastThreeQuarters == maxSize - firstQuarter - 1
    IN  Take(msgs, firstQuarter) \o <<TruncationMarker>> \o LastN(msgs, lastThreeQuarters)

\* Queue.Add after q.mu.Lock(): append, then trim when over capacity.
AppendAndTrim(msgs, maxSize, msg) ==
    LET appended == Append(msgs, msg)
    IN  IF Len(appended) > maxSize THEN Truncate(appended, maxSize) ELSE appended

\* Queue.Add: q.mu.Lock()
AddLock(g) ==
    /\ gpc[g] = "idle"
    /\ qMu = 0
    /\ qNext <= MaxAdds
    /\ qMu' = g
    /\ gpc' = [gpc EXCEPT ![g] = "add"]
    /\ UNCHANGED <<qMaxSize, qMessages, qAdded, qNext>>
    /\ UNCHANGED notQueue

\* Queue.Add: the append and the trim, under the lock
AddBody(g) ==
    /\ gpc[g] = "add"
    /\ qMu = g
    /\ qMessages' = AppendAndTrim(qMessages, qMaxSize, qNext)
    /\ qAdded' = Append(qAdded, qNext)
    /\ qNext' = qNext + 1
    /\ gpc' = [gpc EXCEPT ![g] = "unlock"]
    /\ UNCHANGED <<qMaxSize, qMu>>
    /\ UNCHANGED notQueue

\* Queue.Add: the deferred q.mu.Unlock()
AddUnlock(g) ==
    /\ gpc[g] = "unlock"
    /\ qMu = g
    /\ qMu' = 0
    /\ gpc' = [gpc EXCEPT ![g] = "idle"]
    /\ UNCHANGED <<qMaxSize, qMessages, qAdded, qNext>>
    /\ UNCHANGED notQueue

\* Queue.Clear: lock, replace the slice, unlock
Clear(g) ==
    /\ gpc[g] = "idle"
    /\ qMu = 0
    /\ qMessages # <<>>
    /\ qMessages' = <<>>
    /\ qAdded' = <<>>
    /\ UNCHANGED <<qMaxSize, qMu, gpc, qNext>>
    /\ UNCHANGED notQueue

\* Queue.Size(): readable only while no Add holds the mutex
Size == Len(qMessages)

QueueNext ==
    \E g \in Goroutines :
        \/ AddLock(g)
        \/ AddBody(g)
        \/ AddUnlock(g)
        \/ Clear(g)

\* The queue while another part of the program is the one under study.
QueueIdle ==
    /\ qMaxSize = 1
    /\ qMessages = <<>>
    /\ qMu = 0
    /\ gpc = [g \in Goroutines |-> "idle"]
    /\ qAdded = <<>>
    /\ qNext = 1

-----------------------------------------------------------------------------
(* The installation session: pages, Model, messages *)

MaxPkgs == 2         \* packages returned by getSelectedPackages
MaxChains == 2       \* commands in flight at once
MaxSessions == 2     \* runs of startInstallation
MaxProgress == 2     \* installProgress values explored
MaxOrphans == 1      \* Helper.Install goroutines left running
MaxDirs == 1         \* configuration directories found by installDotfiles
MaxHistory == 5      \* length of Router.history explored
MaxKeys == 8         \* key presses in one run

\* len(config.ConfigDirs)
NumConfigDirs == 7

Chains == 1..MaxChains
Packages == 1..MaxPkgs

\* The empty package name "".
NoPkg == 0

WelcomePage == "WelcomePage"
AURHelperPage == "AURHelperPage"
PackageCategoriesPage == "PackageCategoriesPage"
InstallationPage == "InstallationPage"
CompletePage == "CompletePage"

\* NewModel(): the fields of Model the session reads and writes.
NewModel ==
    [page |-> WelcomePage,
     aurHelper |-> FALSE,
     aurHelperInstalled |-> FALSE,
     packagesToInstall |-> <<>>,
     installProgress |-> 0,
     totalSteps |-> 0,
     installPhase |-> "",
     awaitingPassword |-> FALSE,
     hasConflict |-> FALSE,
     conflictOption |-> 0,
     conflictPackage |-> NoPkg,
     replaceAllPackages |-> FALSE,
     dotfilesConfirmation |-> FALSE,
     backupConfirmation |-> FALSE,
     errorMessage |-> FALSE]

\* NewRouter()
NewRouter == [currentPage |-> WelcomePage, history |-> <<>>]

\* InstallProgressMsg; kind "nil" is the nil tea.Msg.
NilMsg == [kind |-> "nil", Progress |-> 0, Total |-> 0, Phase |-> ""]

\* NewInstallProgressMsg(progress, total, step, phase, nil)
NewInstallProgressMsg(progress, total, phase) ==
    [kind |-> "progress", Progress |-> progress, Total |-> total, Phase |-> phase]

\* progressMsg.Error = err
ErrorMsg(progress, total, phase) ==
    [kind |-> "error", Progress |-> progress, Total |-> total, Phase |-> phase]

NewCompleteMsg == [kind |-> "complete", Progress |-> 0, Total |-> 0, Phase |-> ""]

NewConflictMsg == [kind |-> "conflict", Progress |-> 0, Total |-> 0, Phase |-> ""]

NewDotfilesConfirmationMsg ==
    [kind |-> "dotfiles", Progress |-> 0, Total |-> 0, Phase |-> ""]

NewBackupConfirmationMsg ==
    [kind |-> "backup", Progress |-> 0, Total |-> 0, Phase |-> ""]

\* getSelectedPackages(): config.BasePackages and the selected options, in order.
getSelectedPackages == [k \in 1..MaxPkgs |-> k]

\* handleInstallProgress(msg) on the Model m: the Model it leaves, and whether
\* it returns continueInstallation().
handleInstallProgress(m, msg) ==
    IF msg.kind = "complete"
    THEN [m |-> [m EXCEPT !.page = CompletePage], cont |-> FALSE]
    ELSE IF msg.kind = "conflict"
    THEN [m |-> [m EXCEPT !.hasConflict = TRUE], cont |-> FALSE]
    ELSE IF msg.kind = "dotfiles"
    THEN [m |-> [m EXCEPT !.installPhase = "dotfiles_confirmation"], cont |-> FALSE]
    ELSE IF msg.kind = "backup"
    THEN [m |-> [m EXCEPT !.installPhase = "backup_confirmation"], cont |-> FALSE]
    ELSE IF msg.kind = "error"
    THEN [m |-> [m EXCEPT !.errorMessage = TRUE], cont |-> FALSE]
    ELSE LET n == [m EXCEPT !.installProgress = msg.Progress,
                            !.totalSteps = msg.Total,
                            !.installPhase = msg.Phase]
         IN  [m |-> n, cont |-> ~n.awaitingPassword]

\* The steps counted by the first startInstallation of commands.go.
TotalStepsWithoutQuestions(packages, dirs) == packages + 1 + dirs

\* The steps startInstallation counts: the helper, the packages, the dotfiles
\* question, the backup, the clone, one per configuration directory.
TotalSteps(packages, dirs) == 1 + packages + 1 + 1 + 1 + dirs

\* The body of startInstallation's command on the Model m.
startInstallation(m) ==
    [m EXCEPT !.packagesToInstall = getSelectedPackages,
              !.totalSteps = TotalSteps(Len(getSelectedPackages), NumConfigDirs),
              !.installProgress = 0,
              !.awaitingPassword = TRUE]

-----------------------------------------------------------------------------
(* Commands in flight *)

\* A command slot nobody uses.  `att` says that the *Model the command is bound
\* to is the object the program holds; `m` is that object's state otherwise.
\* pkg is installNextPackage's local; q0 and p0 remember the queue and the
\* progress at the start of the attempt; reissue names the package a Replace
\* answer resumed for; late says that a key started the command when the page
\* was CompletePage already (history).
FreeChain ==
    [pc |-> "free", att |-> FALSE, m |-> NewModel, pkg |-> NoPkg, out |-> NilMsg,
     q0 |-> <<>>, p0 |-> 0, reissue |-> NoPkg, late |-> FALSE]

\* History: the conflict the dialog is showing (its package, and the queue and
\* the progress when its attempt began), the session ReplaceAll was chosen in,
\* and the session, if it is the current one, in which Helper.Install has
\* returned an error.
NoHistory ==
    [pendPkg |-> NoPkg, pendQ0 |-> <<>>, pendP0 |-> 0, allSession |-> 0, failedIn |-> 0]

\* The state of every session variable before the program starts.
SessionIdle ==
    /\ model = NewModel
    /\ chains = [i \in Chains |-> FreeChain]
    /\ router = NewRouter
    /\ running = {}
    /\ currentCmd = 0
    /\ helperInst = FALSE
    /\ orphans = 0
    /\ skippedPackages = {}
    /\ sessions = 0
    /\ keys = 0
    /\ exit = "no"
    /\ hist = NoHistory

\* tea.NewProgram(NewModel()); the helper may or may not be on the PATH.
SessionInit ==
    /\ model = NewModel
    /\ chains = [i \in Chains |-> FreeChain]
    /\ router = NewRouter
    /\ running = {}
    /\ currentCmd = 0
    /\ helperInst \in BOOLEAN
    /\ orphans = 0
    /\ skippedPackages = {}
    /\ sessions = 0
    /\ keys = 0
    /\ exit = "no"
    /\ hist = NoHistory

\* The Model a command reads and writes through its pointer receiver.
ModelOf(i) == IF chains[i].att THEN model ELSE chains[i].m

HasFree == \E i \in Chains : chains[i].pc = "free"

FreeSlot == CHOOSE i \in Chains :
    chains[i].pc = "free" /\ \A j \in Chains : chains[j].pc = "free" => i <= j

\* Of an object only its command can reach, the fields that command still
\* reads once continueInstallation has dispatched.
Own(m) ==
    [NewModel EXCEPT !.packagesToInstall = m.packagesToInstall,
                     !.installProgress = m.installProgress,
                     !.totalSteps = m.totalSteps,
                     !.replaceAllPackages = m.replaceAllPackages]

\* Update returned a Model value: the program now holds a copy, and the object
\* a running command writes to is no longer the program's.
Detach(cs) ==
    [i \in Chains |->
        IF cs[i].att
        THEN [cs[i] EXCEPT !.att = FALSE,
                           !.m = IF cs[i].pc = "start" THEN model ELSE Own(model)]
        ELSE cs[i]]

\* Command i leaves its Model as nm and itself as nc.
Advance(i, nm, nc) ==
    LET done == nc.pc \in {"ret", "free"}
        c == [nc EXCEPT !.att = IF done THEN FALSE ELSE chains[i].att,
                        !.m = IF done \/ chains[i].att THEN NewModel ELSE Own(nm)]
    IN  /\ model' = IF chains[i].att THEN nm ELSE model
        /\ chains' = [chains EXCEPT ![i] = c]

\* return msg
Return(c, msg) ==
    IF msg.kind = "conflict"
    THEN [c EXCEPT !.pc = "ret", !.out = msg]
    ELSE [FreeChain EXCEPT !.pc = "ret", !.out = msg]

\* installNextPackage down to InstallPackages' ClearPackageManager and pkill:
\* the Model and the command after it, and whether InstallPackages was called.
installNextPackage(m, c) ==
    IF Len(m.packagesToInstall) = 0
    THEN [m |-> [m EXCEPT !.installPhase = "dotfiles_confirmation"],
          c |-> Return(c, NewDotfilesConfirmationMsg),
          called |-> FALSE]
    ELSE [m |-> [m EXCEPT !.packagesToInstall = Tail(@),
                          !.installProgress = @ + 1],
          c |-> [c EXCEPT !.pc = "ip_start",
                          !.pkg = Head(m.packagesToInstall),
                          !.q0 = m.packagesToInstall,
                          !.p0 = m.installProgress],
          called |-> TRUE]

\* Command i goes on as installNextPackage from the Model m, with the
\* subprocesses in `alive` running.  InstallPackages opens with
\* ClearPackageManager() and pkill -9 of the helper and of pacman.
EnterInstallNext(i, m, c, alive) ==
    LET r == installNextPackage(m, c)
    IN  /\ Advance(i, r.m, [r.c EXCEPT !.reissue = NoPkg])
        /\ currentCmd' = IF r.called THEN 0 ELSE currentCmd
        /\ running' = IF r.called THEN {} ELSE alive
        /\ UNCHANGED <<router, helperInst, orphans, skippedPackages, sessions, keys, exit, hist>>

\* Command i panics (nil dereference, slice bounds out of range): the program dies.
Panic ==
    /\ exit' = "panic"
    /\ UNCHANGED <<model, chains, router, running, currentCmd, helperInst, orphans,
                   skippedPackages, sessions, keys, hist>>

\* Command i takes a step that touches only its Model.
Local(i, nm, nc) ==
    /\ Advance(i, nm, nc)
    /\ UNCHANGED <<router, running, currentCmd, helperInst, orphans,
                   skippedPackages, sessions, keys, exit, hist>>

\* continueInstallation's command, down to the first blocking call of the
\* function it hands over to.
ContinueInstallation(i) ==
    /\ exit = "no"
    /\ chains[i].pc = "start"
    /\ UNCHANGED notSession
    /\ LET m == ModelOf(i)
           c == chains[i]
       IN  IF m.hasConflict /\ m.conflictOption = 0
           THEN IF Len(m.packagesToInstall) = 0
                THEN Panic
                ELSE EnterInstallNext(i, [m EXCEPT !.packagesToInstall = Tail(@)], c, running)
           ELSE IF m.hasConflict /\ m.conflictOption = 1
           THEN EnterInstallNext(i, m, c, running)
           ELSE IF m.hasConflict /\ m.conflictOption = 2
           THEN Local(i, [m EXCEPT !.page = PackageCategoriesPage], FreeChain)
           ELSE IF m.installPhase = "dotfiles_confirmation"
           THEN IF m.dotfilesConfirmation
                THEN Local(i, [m EXCEPT !.installPhase = "backup_confirmation"],
                           Return(c, NewBackupConfirmationMsg))
                ELSE Local(i, m, Return(c, NewCompleteMsg))
           ELSE IF m.installPhase = "backup_confirmation"
           THEN IF m.backupConfirmation
                THEN Local(i, [m EXCEPT !.installProgress = @ + 1],
                           [c EXCEPT !.pc = "backup"])
                ELSE Local(i, [m EXCEPT !.installProgress = @ + 1],
                           [c EXCEPT !.pc = "dotfiles"])
           ELSE IF ~m.aurHelperInstalled
           THEN IF ~m.aurHelper
                THEN Panic
                ELSE /\ m.installProgress < MaxProgress
                     /\ Local(i, [m EXCEPT !.installProgress = @ + 1],
                              [c EXCEPT !.pc = "aur_wait"])
           ELSE IF Len(m.packagesToInstall) > 0
           THEN EnterInstallNext(i, m, c, running)
           ELSE Local(i, [m EXCEPT !.installPhase = "dotfiles_confirmation"],
                      Return(c, NewDotfilesConfirmationMsg))

AurBranches == {"error", "message", "done", "tick", "timeout"}

\* installAURHelper's select: which case returns, with the outcome ok of
\* Helper.Install where it has returned.
AurSelect(i, branch, ok) ==
    /\ exit = "no"
    /\ chains[i].pc = "aur_wait"
    /\ UNCHANGED <<notSession, router, running, currentCmd, skippedPackages, sessions, keys,
                   exit>>
    /\ hist' = IF branch \in {"error", "message"} /\ ~ok
               THEN [hist EXCEPT !.failedIn = sessions]
               ELSE hist
    /\ LET m == ModelOf(i)
           c == chains[i]
           installed == [m EXCEPT !.aurHelperInstalled = TRUE,
                                  !.installPhase = "Package Installation"]
           started == NewInstallProgressMsg(m.installProgress, m.totalSteps,
                                            "Package Installation")
           waiting == NewInstallProgressMsg(m.installProgress, m.totalSteps,
                                            "AUR Helper Installation")
       IN  CASE branch = "error" ->
                   /\ ~ok /\ ~helperInst
                   /\ Advance(i, m, Return(c, ErrorMsg(m.installProgress, m.totalSteps,
                                                       "AUR Helper Installation")))
                   /\ UNCHANGED <<helperInst, orphans>>
             [] branch = "message" ->
                   /\ helperInst => ok
                   /\ Advance(i, m, Return(c, waiting))
                   /\ helperInst' = (helperInst \/ ok)
                   /\ UNCHANGED orphans
             [] branch = "done" ->
                   \* Install returned nil; no h.IsInstalled() here: whether
                   \* exec.LookPath finds the command is up to the PATH.
                   /\ ok
                   /\ Advance(i, installed, Return(c, started))
                   /\ helperInst' \in {TRUE, helperInst}
                   /\ UNCHANGED orphans
             [] branch = "tick" ->
                   /\ ok
                   /\ IF helperInst
                      THEN /\ Advance(i, installed, Return(c, started))
                           /\ UNCHANGED orphans
                      ELSE /\ orphans < MaxOrphans
                           /\ Advance(i, m, Return(c, waiting))
                           /\ orphans' = orphans + 1
                   /\ UNCHANGED helperInst
             [] branch = "timeout" ->
                   \* timeout.C is ready (with ticker.C, after the program has
                   \* not run for 30 minutes): the error is returned and the
                   \* goroutine running Install, with its git or makepkg
                   \* subprocess, is left behind.
                   /\ ok
                   /\ ~helperInst
                   /\ orphans < MaxOrphans
                   /\ Advance(i, m, Return(c, ErrorMsg(m.installProgress, m.totalSteps,
                                                       "AUR Helper Installation")))
                   /\ orphans' = orphans + 1
                   /\ UNCHANGED helperInst

\* A Helper.Install goroutine nobody waits for any more returns.
InstallReturns(ok) ==
    /\ exit = "no"
    /\ orphans > 0
    /\ orphans' = orphans - 1
    /\ helperInst' = (helperInst \/ ok)
    /\ UNCHANGED <<notSession, model, chains, router, running, currentCmd,
                   skippedPackages, sessions, keys, exit, hist>>

\* InstallPackages: cmd.Start(), then the slot is set.
StartProcess(i) ==
    /\ exit = "no"
    /\ chains[i].pc = "ip_start"
    /\ running' = running \cup {i}
    /\ currentCmd' = i
    /\ chains' = [chains EXCEPT ![i].pc = "ip_wait"]
    /\ UNCHANGED <<notSession, model, router, helperInst, orphans, skippedPackages,
                   sessions, keys, exit, hist>>

Outcomes == {"ok", "conflict", "fail", "timeout"}

\* InstallPackages' final select returns, and installNextPackage acts on the
\* result.  A subprocess another pkill has killed can only have failed.
WaitProcess(i, outcome) ==
    /\ exit = "no"
    /\ chains[i].pc = "ip_wait"
    /\ i \in running \/ outcome \in {"conflict", "fail"}
    /\ UNCHANGED notSession
    /\ LET m == ModelOf(i)
           c == chains[i]
           alive == running \ {i}
           failed == Return(c, ErrorMsg(m.installProgress, m.totalSteps,
                                        "Package Installation"))
           named == [m EXCEPT !.conflictPackage = c.pkg]
       IN  CASE outcome = "conflict" /\ m.replaceAllPackages ->
                   EnterInstallNext(i, named, c, alive)
             [] outcome = "conflict" /\ ~m.replaceAllPackages ->
                   /\ Advance(i, [named EXCEPT !.hasConflict = TRUE,
                                               !.conflictOption = 0],
                              Return(c, NewConflictMsg))
                   /\ running' = alive
                   /\ UNCHANGED <<router, currentCmd, helperInst, orphans,
                                  skippedPackages, sessions, keys, exit, hist>>
             [] outcome \in {"fail", "timeout"} ->
                   /\ Advance(i, m, failed)
                   /\ running' = alive
                   /\ UNCHANGED <<router, currentCmd, helperInst, orphans,
                                  skippedPackages, sessions, keys, exit, hist>>
             [] outcome = "ok" /\ Len(m.packagesToInstall) > 0 ->
                   EnterInstallNext(i, m, c, alive)
             [] outcome = "ok" /\ Len(m.packagesToInstall) = 0 ->
                   /\ Advance(i, [m EXCEPT !.installPhase = "dotfiles_confirmation"],
                              Return(c, NewDotfilesConfirmationMsg))
                   /\ running' = alive
                   /\ UNCHANGED <<router, currentCmd, helperInst, orphans,
                                  skippedPackages, sessions, keys, exit, hist>>

\* backupConfigDirs after its installProgress++: the copies, then
\* installDotfiles with its own installProgress++.
BackupConfigDirs(i, ok) ==
    /\ exit = "no"
    /\ chains[i].pc = "backup"
    /\ UNCHANGED notSession
    /\ LET m == ModelOf(i)
           c == chains[i]
       IN  IF ok
           THEN Local(i, [m EXCEPT !.installPhase = "Post-Installation",
                                   !.installProgress = @ + 1],
                      [c EXCEPT !.pc = "dotfiles"])
           ELSE Local(i, m, Return(c, ErrorMsg(m.installProgress, m.totalSteps, "Backup")))

\* installDotfiles after its installProgress++: the clone, then one
\* installProgress++ for each of the k directories copied.
InstallDotfiles(i, ok, k) ==
    /\ exit = "no"
    /\ chains[i].pc = "dotfiles"
    /\ UNCHANGED notSession
    /\ LET m == ModelOf(i)
           c == chains[i]
       IN  IF ok
           THEN Local(i, [m EXCEPT !.installProgress = @ + k], Return(c, NewCompleteMsg))
           ELSE /\ k = 0
                /\ Local(i, m, Return(c, ErrorMsg(m.installProgress, m.totalSteps,
                                                  "Post-Installation")))

\* Update(InstallProgressMsg): the message command i returned reaches the
\* program.  handleInstallProgress has a pointer receiver: the program keeps
\* Update's copy, and the command it returns is bound to that same object.
Deliver(i) ==
    /\ exit = "no"
    /\ chains[i].pc = "ret"
    /\ LET c == chains[i]
           r == handleInstallProgress(model, c.out)
       IN  /\ model' = r.m
           /\ chains' = [Detach(chains) EXCEPT
                            ![i] = IF r.cont
                                   THEN [FreeChain EXCEPT !.pc = "start", !.att = TRUE]
                                   ELSE FreeChain]
           /\ hist' = IF c.out.kind = "conflict"
                      THEN [hist EXCEPT !.pendPkg = c.pkg, !.pendQ0 = c.q0,
                                        !.pendP0 = c.p0]
                      ELSE hist
    /\ UNCHANGED <<notSession, router, running, currentCmd, helperInst, orphans,
                   skippedPackages, sessions, keys, exit>>

-----------------------------------------------------------------------------
(* Update(tea.KeyMsg) and Update(spinner.TickMsg) *)

\* Update returns the Model value nm and no command.
ValueReturn(nm) ==
    /\ model' = nm
    /\ chains' = Detach(chains)

\* Update returns the Model value nm and nm.continueInstallation(): the command
\* is bound to the handler's own copy.
Spawn(nm, reissue) ==
    /\ HasFree
    /\ model' = nm
    /\ chains' = [Detach(chains) EXCEPT
                     ![FreeSlot] = [FreeChain EXCEPT !.pc = "start", !.m = nm,
                                                     !.reissue = reissue,
                                                     !.late = (model.page = CompletePage)]]

\* Router.Navigate(to, m)
Navigate(to) ==
    /\ Len(router.history) < MaxHistory
    /\ router' = [currentPage |-> to,
                  history |-> Append(router.history, router.currentPage)]

\* Keys reach the page's updater only past the password and conflict handlers.
OnPage(page) ==
    /\ exit = "no"
    /\ ~model.awaitingPassword
    /\ ~model.hasConflict
    /\ router.currentPage = page

\* One more tea.KeyMsg reaches Update.
Pressed ==
    /\ keys < MaxKeys
    /\ keys' = keys + 1

\* keyMap.Quit
Quit ==
    /\ Pressed
    /\ exit = "no"
    /\ exit' = "quit"
    /\ UNCHANGED <<notSession, model, chains, router, running, currentCmd, helperInst,
                   orphans, skippedPackages, sessions, hist>>

\* spinner.TickMsg, and every key a handler answers with `return m, nil`.
Tick ==
    /\ exit = "no"
    /\ ValueReturn(model)
    /\ UNCHANGED <<notSession, router, running, currentCmd, helperInst, orphans,
                   skippedPackages, sessions, keys, exit, hist>>

\* updateWelcomePage, Enter
WelcomeEnter ==
    /\ Pressed
    /\ OnPage(WelcomePage)
    /\ Navigate(AURHelperPage)
    /\ ValueReturn(model)
    /\ UNCHANGED <<notSession, running, currentCmd, helperInst, orphans,
                   skippedPackages, sessions, exit, hist>>

\* updateAURHelperPage, Enter
AURHelperEnter ==
    /\ Pressed
    /\ OnPage(AURHelperPage)
    /\ Navigate(PackageCategoriesPage)
    /\ ValueReturn([model EXCEPT !.aurHelper = TRUE])
    /\ UNCHANGED <<notSession, running, currentCmd, helperInst, orphans,
                   skippedPackages, sessions, exit, hist>>

\* updatePackageCategoriesPage, Right: Navigate(InstallationPage), the
\* transition's startInstallation command, and Update of the message it returns.
StartInstallation ==
    /\ Pressed
    /\ OnPage(PackageCategoriesPage)
    /\ sessions < MaxSessions
    /\ Navigate(InstallationPage)
    /\ LET started == startInstallation(model)
           r == handleInstallProgress(started,
                    NewInstallProgressMsg(started.installProgress, started.totalSteps,
                                          "Preparation"))
       IN  ValueReturn(r.m)
    /\ sessions' = sessions + 1
    /\ hist' = [hist EXCEPT !.failedIn = 0]
    /\ UNCHANGED <<notSession, running, currentCmd, helperInst, orphans,
                   skippedPackages, exit>>

\* keyMap.Back outside the password prompt and the conflict dialog: Router.Back.
Back ==
    /\ Pressed
    /\ exit = "no"
    /\ ~model.awaitingPassword
    /\ ~model.hasConflict
    /\ router' = IF Len(router.history) = 0
                 THEN router
                 ELSE [currentPage |-> router.history[Len(router.history)],
                       history |-> Take(router.history, Len(router.history) - 1)]
    /\ ValueReturn(model)
    /\ UNCHANGED <<notSession, running, currentCmd, helperInst, orphans,
                   skippedPackages, sessions, exit, hist>>

\* handlePasswordInput, Enter
PasswordEnter ==
    /\ Pressed
    /\ exit = "no"
    /\ model.awaitingPassword
    /\ Spawn([model EXCEPT !.awaitingPassword = FALSE], NoPkg)
    /\ UNCHANGED <<notSession, router, running, currentCmd, helperInst, orphans,
                   skippedPackages, sessions, exit, hist>>

\* handlePasswordInput, Esc
PasswordEsc ==
    /\ Pressed
    /\ exit = "no"
    /\ model.awaitingPassword
    /\ ValueReturn([model EXCEPT !.awaitingPassword = FALSE,
                                 !.page = PackageCategoriesPage])
    /\ UNCHANGED <<notSession, router, running, currentCmd, helperInst, orphans,
                   skippedPackages, sessions, exit, hist>>

InConflictDialog ==
    /\ exit = "no"
    /\ ~model.awaitingPassword
    /\ model.hasConflict

\* handleConflictInput, Up
ConflictUp ==
    /\ Pressed
    /\ InConflictDialog
    /\ ValueReturn([model EXCEPT !.conflictOption = IF @ > 0 THEN @ - 1 ELSE 3])
    /\ UNCHANGED <<notSession, router, running, currentCmd, helperInst, orphans,
                   skippedPackages, sessions, exit, hist>>

\* handleConflictInput, Down
ConflictDown ==
    /\ Pressed
    /\ InConflictDialog
    /\ ValueReturn([model EXCEPT !.conflictOption = IF @ < 3 THEN @ + 1 ELSE 0])
    /\ UNCHANGED <<notSession, router, running, currentCmd, helperInst, orphans,
                   skippedPackages, sessions, exit, hist>>

\* The dialog is answered: it shows no conflict any more (history).
Answered == [hist EXCEPT !.pendPkg = NoPkg, !.pendQ0 = <<>>, !.pendP0 = 0]

\* handleConflictInput, Enter
ConflictEnter ==
    /\ Pressed
    /\ InConflictDialog
    /\ LET cleared == [model EXCEPT !.hasConflict = FALSE]
       IN  CASE model.conflictOption = 0 ->
                   /\ skippedPackages' = IF model.conflictPackage # NoPkg
                                         THEN skippedPackages \cup {model.conflictPackage}
                                         ELSE skippedPackages
                   /\ Spawn(cleared, NoPkg)
                   /\ hist' = Answered
                   /\ UNCHANGED router
             [] model.conflictOption = 1 ->
                   /\ Spawn(cleared, hist.pendPkg)
                   /\ hist' = Answered
                   /\ UNCHANGED <<router, skippedPackages>>
             [] model.conflictOption = 2 ->
                   /\ Spawn([cleared EXCEPT !.replaceAllPackages = TRUE], NoPkg)
                   /\ hist' = [Answered EXCEPT !.allSession = sessions]
                   /\ UNCHANGED <<router, skippedPackages>>
             [] model.conflictOption = 3 ->
                   /\ Navigate(PackageCategoriesPage)
                   /\ ValueReturn(cleared)
                   /\ hist' = Answered
                   /\ UNCHANGED skippedPackages
    /\ UNCHANGED <<notSession, running, currentCmd, helperInst, orphans, sessions, exit>>

\* handleConflictInput, Esc
ConflictEsc ==
    /\ Pressed
    /\ InConflictDialog
    /\ Navigate(PackageCategoriesPage)
    /\ ValueReturn([model EXCEPT !.hasConflict = FALSE])
    /\ hist' = Answered
    /\ UNCHANGED <<notSession, running, currentCmd, helperInst, orphans,
                   skippedPackages, sessions, exit>>

InConfirmation ==
    /\ OnPage(InstallationPage)
    /\ model.installPhase \in {"dotfiles_confirmation", "backup_confirmation"}

\* updateInstallationPage, Up or Down on a confirmation screen
ConfirmToggle ==
    /\ Pressed
    /\ InConfirmation
    /\ ValueReturn(IF model.installPhase = "dotfiles_confirmation"
                   THEN [model EXCEPT !.dotfilesConfirmation = ~@]
                   ELSE [model EXCEPT !.backupConfirmation = ~@])
    /\ UNCHANGED <<notSession, router, running, currentCmd, helperInst, orphans,
                   skippedPackages, sessions, exit, hist>>

\* updateInstallationPage, Enter or Space on a confirmation screen
ConfirmEnter ==
    /\ Pressed
    /\ InConfirmation
    /\ Spawn(model, NoPkg)
    /\ UNCHANGED <<notSession, router, running, currentCmd, helperInst, orphans,
                   skippedPackages, sessions, exit, hist>>

Next ==
    \/ \E i \in Chains : ContinueInstallation(i)
    \/ \E i \in Chains, b \in AurBranches, ok \in BOOLEAN : AurSelect(i, b, ok)
    \/ \E ok \in BOOLEAN : InstallReturns(ok)
    \/ \E i \in Chains : StartProcess(i)
    \/ \E i \in Chains, o \in Outcomes : WaitProcess(i, o)
    \/ \E i \in Chains, ok \in BOOLEAN : BackupConfigDirs(i, ok)
    \/ \E i \in Chains, ok \in BOOLEAN, k \in 0..MaxDirs : InstallDotfiles(i, ok, k)
    \/ \E i \in Chains : Deliver(i)
    \/ Quit
    \/ Tick
    \/ WelcomeEnter
    \/ AURHelperEnter
    \/ StartInstallation
    \/ Back
    \/ PasswordEnter
    \/ PasswordEsc
    \/ ConflictUp
    \/ ConflictDown
    \/ ConflictEnter
    \/ ConflictEsc
    \/ ConfirmToggle
    \/ ConfirmEnter

-----------------------------------------------------------------------------
(* Helper.InstallPackages: one call *)

MaxGroup == 2        \* processes the subprocess forks

IPVariants == {"pipes", "buffers"}

IPIdle ==
    /\ ipVariant = "pipes"
    /\ ipPc = "start"
    /\ ipChild = "none"
    /\ ipGroup = 0
    /\ ipResultCh = "empty"
    /\ ipConflict = FALSE
    /\ ipStdin = "open"
    /\ ipReadEnds = "open"
    /\ ipOutputDone = FALSE
    /\ ipTimer = FALSE
    /\ ipResult = "none"

\* InstallPackages is entered, its pipes made.
InstallPackagesInit ==
    /\ ipVariant \in IPVariants
    /\ ipPc = "start"
    /\ ipChild = "none"
    /\ ipGroup = 0
    /\ ipResultCh = "empty"
    /\ ipConflict = FALSE
    /\ ipStdin = "open"
    /\ ipReadEnds = "open"
    /\ ipOutputDone = FALSE
    /\ ipTimer = FALSE
    /\ ipResult = "none"

\* cmd.Start(), and on success the slot, the password line written to stdin
\* (stdin is kept, in stdinPipe), the goroutines and the select.
IPStart(ok) ==
    /\ ipPc = "start"
    /\ IF ok
       THEN /\ ipChild' = "run"
            /\ ipPc' = "select"
            /\ UNCHANGED ipResult
       ELSE /\ ipResult' = "failed"
            /\ ipPc' = "returned"
            /\ UNCHANGED ipChild
    /\ UNCHANGED <<ipVariant, ipStdin, ipGroup, ipResultCh, ipConflict, ipReadEnds, ipOutputDone,
                   ipTimer>>
    /\ UNCHANGED notIP

\* The subprocess (sudo, the helper) forks makepkg, pacman, ...: the new
\* process inherits the pipes.
ChildForks ==
    /\ ipChild = "run"
    /\ ipGroup < MaxGroup
    /\ ipGroup' = ipGroup + 1
    /\ UNCHANGED <<ipVariant, ipStdin, ipPc, ipChild, ipResultCh, ipConflict, ipReadEnds,
                   ipOutputDone, ipTimer, ipResult>>
    /\ UNCHANGED notIP

\* A forked process exits.
GroupExits ==
    /\ ipGroup > 0
    /\ ipGroup' = ipGroup - 1
    /\ UNCHANGED <<ipVariant, ipStdin, ipPc, ipChild, ipResultCh, ipConflict, ipReadEnds,
                   ipOutputDone, ipTimer, ipResult>>
    /\ UNCHANGED notIP

\* The subprocess exits by itself, with status 0 or not.
ChildExits(status) ==
    /\ ipChild = "run"
    /\ ipChild' = status
    /\ UNCHANGED <<ipVariant, ipStdin, ipPc, ipGroup, ipResultCh, ipConflict, ipReadEnds,
                   ipOutputDone, ipTimer, ipResult>>
    /\ UNCHANGED notIP

\* A line containing "conflict" is written and read.
ConflictLine ==
    /\ ipChild = "run" \/ ipGroup > 0
    /\ ipReadEnds = "open"
    /\ ~ipOutputDone
    /\ ~ipConflict
    /\ ipConflict' = TRUE
    /\ UNCHANGED <<ipVariant, ipStdin, ipPc, ipChild, ipGroup, ipResultCh, ipReadEnds,
                   ipOutputDone, ipTimer, ipResult>>
    /\ UNCHANGED notIP

\* resultCh <- cmd.Wait().  With StdoutPipe/StderrPipe, Wait returns once the
\* subprocess is gone and closes the parent's ends; with cmd.Stdout a
\* MultiWriter, Wait also waits for the copy to reach the end of the pipe, which
\* every process holding the pipe must have closed.  Wait closes the parent's
\* end of the stdin pipe as well.
WaitReturns ==
    /\ ipChild \in {"exited", "failed", "killed"}
    /\ ipResultCh = "empty"
    /\ ipVariant = "buffers" => ipGroup = 0
    /\ ipResultCh' = IF ipChild = "exited" THEN "nil" ELSE "err"
    /\ ipReadEnds' = "closed"
    /\ ipStdin' = "closed"
    /\ UNCHANGED <<ipVariant, ipPc, ipChild, ipGroup, ipConflict, ipOutputDone, ipTimer,
                   ipResult>>
    /\ UNCHANGED notIP

\* Both scanners stop, at the end of the output or on the closed pipe:
\* close(outputDone).
ReadersFinish ==
    /\ ipVariant = "pipes"
    /\ ipChild # "none"
    /\ ~ipOutputDone
    /\ ipReadEnds = "closed" \/ (ipChild # "run" /\ ipGroup = 0)
    /\ ipOutputDone' = TRUE
    /\ UNCHANGED <<ipVariant, ipStdin, ipPc, ipChild, ipGroup, ipResultCh, ipConflict, ipReadEnds,
                   ipTimer, ipResult>>
    /\ UNCHANGED notIP

\* time.After(30 * time.Minute)
TimerFires ==
    /\ ipPc = "select"
    /\ ~ipTimer
    /\ ipTimer' = TRUE
    /\ UNCHANGED <<ipVariant, ipStdin, ipPc, ipChild, ipGroup, ipResultCh, ipConflict, ipReadEnds,
                   ipOutputDone, ipResult>>
    /\ UNCHANGED notIP

\* cmd.Process.Kill(): SIGKILL to the one process; its error is dropped.  It
\* fails when the process has gone, or is sudo running as root.
Kill(ok) == IF ipChild = "run" /\ ok THEN "killed" ELSE ipChild

\* What the result case returns.
ResultOf(res, conflict) ==
    IF res = "nil" THEN "success" ELSE IF conflict THEN "conflict" ELSE "failed"

\* select: case err := <-resultCh
SelectResult ==
    /\ ipPc = "select"
    /\ ipResultCh # "empty"
    /\ IF ipVariant = "pipes"
       THEN ipPc' = "drain_result" /\ UNCHANGED ipResult
       ELSE ipPc' = "returned" /\ ipResult' = ResultOf(ipResultCh, ipConflict)
    /\ UNCHANGED <<ipVariant, ipStdin, ipChild, ipGroup, ipResultCh, ipConflict, ipReadEnds,
                   ipOutputDone, ipTimer>>
    /\ UNCHANGED notIP

\* select: case conflictMsg := <-conflictCh
SelectConflict(ok) ==
    /\ ipPc = "select"
    /\ ipVariant = "pipes"
    /\ ipConflict
    /\ ipChild' = Kill(ok)
    /\ ipPc' = "drain_conflict"
    /\ UNCHANGED <<ipVariant, ipStdin, ipGroup, ipResultCh, ipConflict, ipReadEnds, ipOutputDone,
                   ipTimer, ipResult>>
    /\ UNCHANGED notIP

\* select: case <-time.After(30 * time.Minute)
SelectTimeout(ok) ==
    /\ ipPc = "select"
    /\ ipTimer
    /\ ipChild' = Kill(ok)
    /\ IF ipVariant = "pipes"
       THEN ipPc' = "drain_timeout" /\ UNCHANGED ipResult
       ELSE ipPc' = "returned" /\ ipResult' = "timedout"
    /\ UNCHANGED <<ipVariant, ipStdin, ipGroup, ipResultCh, ipConflict, ipReadEnds, ipOutputDone,
                   ipTimer>>
    /\ UNCHANGED notIP

\* <-outputDone, then the return of the case taken.
Drain ==
    /\ ipPc \in {"drain_result", "drain_conflict", "drain_timeout"}
    /\ ipOutputDone
    /\ ipResult' = CASE ipPc = "drain_result" -> ResultOf(ipResultCh, ipConflict)
                     [] ipPc = "drain_conflict" -> "conflict"
                     [] ipPc = "drain_timeout" -> "timedout"
    /\ ipPc' = "returned"
    /\ UNCHANGED <<ipVariant, ipStdin, ipChild, ipGroup, ipResultCh, ipConflict, ipReadEnds,
                   ipOutputDone, ipTimer>>
    /\ UNCHANGED notIP

IPNext ==
    \/ \E ok \in BOOLEAN : IPStart(ok)
    \/ ChildForks
    \/ GroupExits
    \/ \E status \in {"exited", "failed"} : ChildExits(status)
    \/ ConflictLine
    \/ WaitReturns
    \/ ReadersFinish
    \/ TimerFires
    \/ SelectResult
    \/ \E ok \in BOOLEAN : SelectConflict(ok)
    \/ \E ok \in BOOLEAN : SelectTimeout(ok)
    \/ Drain

-----------------------------------------------------------------------------
(* The orchestrator of package ui (src/ui/installation.go) *)

UIMaxPkgs == 4       \* packages selected
UIMaxProgress == 6   \* installProgress explored
UIMaxAuth == 3       \* authentication failures in a row explored

BatchSize == 3

UIPackages == 1..UIMaxPkgs

\* Steps: the batch that begins with package k is step k.
HelperStep == 0

\* InstallProgressMsg{...}
UIMsg(progress, error, needsPassword, hasConflict) ==
    [Progress |-> progress, Error |-> error, NeedsPassword |-> needsPassword,
     HasConflict |-> hasConflict]

UIProgressMsg(progress) == UIMsg(progress, "", FALSE, FALSE)

UIErrorMsg(progress) == UIMsg(progress, "error", FALSE, FALSE)

UINeedsPassword(progress) == UIMsg(progress, "", TRUE, FALSE)

UIConflictMsg(progress) == UIMsg(progress, "", FALSE, TRUE)

\* The Model before startInstallation.
UIModel ==
    [installProgress |-> 0, installError |-> "", awaitingPassword |-> FALSE,
     hasConflict |-> FALSE]

UIIdle ==
    /\ uiPc = "start"
    /\ uiM = UIModel
    /\ uiOut = UIProgressMsg(0)
    /\ uiLeft = <<>>
    /\ uiBatch = <<>>
    /\ uiInstalled = {}
    /\ uiHelper = FALSE
    /\ uiCloned = FALSE
    /\ uiStep = HelperStep
    /\ uiAuthFails = 0

\* startInstallation's message has been handled: continueInstallation is about
\* to run.  Some packages and the helper may be installed already.
UIInit ==
    /\ uiPc = "start"
    /\ uiM = UIModel
    /\ uiOut = UIProgressMsg(0)
    /\ uiLeft = <<>>
    /\ uiBatch = <<>>
    /\ uiInstalled \in SUBSET {1}
    /\ uiHelper \in BOOLEAN
    /\ uiCloned = FALSE
    /\ uiStep = HelperStep
    /\ uiAuthFails = 0

\* The selected packages not in the list of GetInstalledPackages, in order.
RECURSIVE UIFilter(_, _)
UIFilter(k, installed) ==
    IF k > UIMaxPkgs THEN <<>>
    ELSE (IF k \in installed THEN <<>> ELSE <<k>>) \o UIFilter(k + 1, installed)

UIMin(a, b) == IF a < b THEN a ELSE b

\* return msg
UIReturn(msg) ==
    /\ uiPc' = "ret"
    /\ uiOut' = msg

\* History: the step `step` has failed on authentication once more in a row.
UIAuthFailed(step) ==
    /\ uiAuthFails < UIMaxAuth
    /\ uiAuthFails' = IF uiStep = step THEN uiAuthFails + 1 ELSE 1
    /\ uiStep' = step

\* History: the step `step` ended in another way.
UIAuthReset(step) ==
    /\ uiAuthFails' = 0
    /\ uiStep' = step

\* continueInstallation down to the first subprocess.
UIDispatch(ok) ==
    /\ uiPc = "start"
    /\ IF uiM.hasConflict
       THEN \* aur.SendInputToPackageManager(response)
            /\ uiM' = [uiM EXCEPT !.hasConflict = FALSE]
            /\ UIReturn(IF ok THEN UIProgressMsg(uiM.installProgress)
                              ELSE UIErrorMsg(uiM.installProgress))
            /\ UNCHANGED <<uiLeft, uiBatch>>
       ELSE IF ~uiHelper
       THEN /\ uiPc' = "helper"
            /\ UNCHANGED <<uiM, uiOut, uiLeft, uiBatch>>
       ELSE IF ok
       THEN \* aur.GetInstalledPackages() and the filter
            /\ uiPc' = "batch"
            /\ uiLeft' = UIFilter(1, uiInstalled)
            /\ uiBatch' = <<>>
            /\ UNCHANGED <<uiM, uiOut>>
       ELSE /\ UIReturn(UIErrorMsg(uiM.installProgress))
            /\ UNCHANGED <<uiM, uiLeft, uiBatch>>
    /\ UNCHANGED <<uiInstalled, uiHelper, uiCloned, uiStep, uiAuthFails>>
    /\ UNCHANGED notUI

UIOutcomes == {"ok", "auth", "conflict", "other"}

\* m.aurHelper.Install() and the classification of its error.
UIInstallHelper(outcome) ==
    /\ uiPc = "helper"
    /\ uiM.installProgress < UIMaxProgress
    /\ CASE outcome = "ok" ->
              /\ uiHelper' = TRUE
              /\ uiM' = [uiM EXCEPT !.installProgress = @ + 1]
              /\ UIReturn(UIProgressMsg(uiM.installProgress))
              /\ UIAuthReset(HelperStep)
         [] outcome = "auth" ->
              /\ UIReturn(UINeedsPassword(uiM.installProgress))
              /\ UIAuthFailed(HelperStep)
              /\ UNCHANGED <<uiHelper, uiM>>
         [] outcome = "conflict" ->
              /\ UIReturn(UIConflictMsg(uiM.installProgress))
              /\ UIAuthReset(HelperStep)
              /\ UNCHANGED <<uiHelper, uiM>>
         [] outcome = "other" ->
              /\ UIReturn(UIErrorMsg(uiM.installProgress))
              /\ UIAuthReset(HelperStep)
              /\ UNCHANGED <<uiHelper, uiM>>
    /\ UNCHANGED <<uiLeft, uiBatch, uiInstalled, uiCloned>>
    /\ UNCHANGED notUI

\* One turn of the batch loop: m.aurHelper.InstallPackages(batch).
UIInstallBatch(outcome) ==
    /\ uiPc = "batch"
    /\ Len(uiLeft) > 0
    /\ LET n == UIMin(BatchSize, Len(uiLeft))
           batch == SubSeq(uiLeft, 1, n)
           rest == SubSeq(uiLeft, n + 1, Len(uiLeft))
           step == Head(uiLeft)
       IN  /\ uiM.installProgress + n <= UIMaxProgress
           /\ CASE outcome = "ok" ->
                     /\ uiInstalled' = uiInstalled \cup {batch[k] : k \in 1..n}
                     /\ uiM' = [uiM EXCEPT !.installProgress = @ + n]
                     /\ uiLeft' = rest
                     /\ UIAuthReset(step)
                     /\ UNCHANGED <<uiPc, uiOut, uiBatch>>
                [] outcome = "auth" ->
                     /\ UIReturn(UINeedsPassword(uiM.installProgress))
                     /\ UIAuthFailed(step)
                     /\ UNCHANGED <<uiInstalled, uiM, uiLeft, uiBatch>>
                [] outcome = "conflict" ->
                     /\ UIReturn(UIConflictMsg(uiM.installProgress))
                     /\ UIAuthReset(step)
                     /\ UNCHANGED <<uiInstalled, uiM, uiLeft, uiBatch>>
                [] outcome = "other" ->
                     /\ uiPc' = "single"
                     /\ uiBatch' = batch
                     /\ uiLeft' = rest
                     /\ UIAuthReset(step)
                     /\ UNCHANGED <<uiInstalled, uiM, uiOut>>
    /\ UNCHANGED <<uiHelper, uiCloned>>
    /\ UNCHANGED notUI

\* The packages of a failed batch one by one: InstallPackages([]string{pkg}).
UIInstallSingle(ok) ==
    /\ uiPc = "single"
    /\ uiInstalled' = IF ok THEN uiInstalled \cup {Head(uiBatch)} ELSE uiInstalled
    /\ uiM' = [uiM EXCEPT !.installProgress = @ + 1]
    /\ uiBatch' = Tail(uiBatch)
    /\ uiPc' = IF Len(uiBatch) = 1 THEN "batch" ELSE "single"
    /\ UNCHANGED <<uiOut, uiLeft, uiHelper, uiCloned, uiStep, uiAuthFails>>
    /\ UNCHANGED notUI

\* After the batch loop: git clone when Lunaric is not there, else the first
\* configuration directory; both return their progress message.
UICloneOrCopy(ok) ==
    /\ uiPc = "batch"
    /\ Len(uiLeft) = 0
    /\ uiM.installProgress < UIMaxProgress
    /\ IF ok
       THEN /\ uiCloned' = TRUE
            /\ uiM' = [uiM EXCEPT !.installProgress = @ + 1]
            /\ UIReturn(UIProgressMsg(uiM.installProgress))
       ELSE /\ UIReturn(UIErrorMsg(uiM.installProgress))
            /\ UNCHANGED <<uiCloned, uiM>>
    /\ UNCHANGED <<uiLeft, uiBatch, uiInstalled, uiHelper, uiStep, uiAuthFails>>
    /\ UNCHANGED notUI

\* handleInstallProgress(msg)
UIHandle ==
    /\ uiPc = "ret"
    /\ LET m == [uiM EXCEPT !.installProgress = uiOut.Progress,
                            !.installError = uiOut.Error]
       IN  IF uiOut.NeedsPassword
           THEN /\ uiM' = [m EXCEPT !.awaitingPassword = TRUE]
                /\ uiPc' = "prompt"
           ELSE IF uiOut.HasConflict
           THEN /\ uiM' = [m EXCEPT !.hasConflict = TRUE]
                /\ uiPc' = "dialog"
           ELSE IF m.installError = ""
           THEN /\ uiM' = m
                /\ uiPc' = "start"
           ELSE /\ uiM' = m
                /\ uiPc' = "stopped"
    /\ UNCHANGED <<uiOut, uiLeft, uiBatch, uiInstalled, uiHelper, uiCloned, uiStep,
                   uiAuthFails>>
    /\ UNCHANGED notUI

\* Enter in the password prompt: continueInstallation() with the password set.
UIPasswordEnter ==
    /\ uiPc = "prompt"
    /\ uiM' = [uiM EXCEPT !.awaitingPassword = FALSE]
    /\ uiPc' = "start"
    /\ UNCHANGED <<uiOut, uiLeft, uiBatch, uiInstalled, uiHelper, uiCloned, uiStep,
                   uiAuthFails>>
    /\ UNCHANGED notUI

UINext ==
    \/ \E ok \in BOOLEAN : UIDispatch(ok)
    \/ \E o \in UIOutcomes : UIInstallHelper(o)
    \/ \E o \in UIOutcomes : UIInstallBatch(o)
    \/ \E ok \in BOOLEAN : UIInstallSingle(ok)
    \/ \E ok \in BOOLEAN : UICloneOrCopy(ok)
    \/ UIHandle
    \/ UIPasswordEnter

-----------------------------------------------------------------------------
(* installDotfiles: one call (pkg/tui/commands.go) *)

DFMaxDirs == 4       \* entries of config.ConfigDirs explored

DFConfigDirs == 1..DFMaxDirs

DFIdle ==
    /\ dfPc = "start"
    /\ dfOldDir = FALSE
    /\ dfCloneOk = FALSE
    /\ dfFiles = "none"
    /\ dfExisting = {}
    /\ dfTodo = <<>>
    /\ dfAttempted = {}
    /\ dfProgress = 0
    /\ dfResult = "none"

\* installDotfiles is called; ~/HyprLuna may be there from an earlier run.
DFInit ==
    /\ dfPc = "start"
    /\ dfOldDir \in BOOLEAN
    /\ dfCloneOk = FALSE
    /\ dfFiles = "none"
    /\ dfExisting = {}
    /\ dfTodo = <<>>
    /\ dfAttempted = {}
    /\ dfProgress = 0
    /\ dfResult = "none"

\* progressMsg.Error = ...; close(updateCh); return progressMsg
DFFail(error) ==
    /\ dfPc' = "returned"
    /\ dfResult' = error

\* m.installProgress++, os.UserHomeDir()
DFBegin(ok) ==
    /\ dfPc = "start"
    /\ dfProgress' = dfProgress + 1
    /\ IF ok
       THEN dfPc' = "remove" /\ UNCHANGED dfResult
       ELSE DFFail("failed to get home directory")
    /\ UNCHANGED <<dfOldDir, dfCloneOk, dfFiles, dfExisting, dfTodo, dfAttempted>>
    /\ UNCHANGED notDF

\* os.RemoveAll(hyprLunaDir) when the directory exists, then the pipes.
DFRemove(ok) ==
    /\ dfPc = "remove"
    /\ IF dfOldDir /\ ~ok
       THEN DFFail("failed to remove existing HyprLuna directory") /\ UNCHANGED dfOldDir
       ELSE dfPc' = "clone" /\ dfOldDir' = FALSE /\ UNCHANGED dfResult
    /\ UNCHANGED <<dfCloneOk, dfFiles, dfExisting, dfTodo, dfAttempted, dfProgress>>
    /\ UNCHANGED notDF

\* The list without the os.Stat check: every directory of config.ConfigDirs.
DFAllDirs(k, s) == [n \in 1..(DFMaxDirs - k + 1) |-> k + n - 1]

\* The directories of config.ConfigDirs in `s`, in the order of the list.
RECURSIVE DFInOrder(_, _)
DFInOrder(k, s) ==
    IF k > DFMaxDirs THEN <<>>
    ELSE (IF k \in s THEN <<k>> ELSE <<>>) \o DFInOrder(k + 1, s)

\* cmd.Start(), cmd.Wait(): git clone ends with `status` and leaves the checkout
\* directory unreadable, empty, or holding the directories of `found`.
DFClone(status, files, found) ==
    /\ dfPc = "clone"
    /\ files = "some" \/ found = {}
    /\ IF status = "nostart"
       THEN DFFail("failed to start git clone") /\ UNCHANGED <<dfCloneOk, dfFiles, dfExisting>>
       ELSE /\ dfFiles' = files
            /\ dfExisting' = found
            /\ IF status = "failed"
               THEN DFFail("git clone failed") /\ UNCHANGED dfCloneOk
               ELSE dfPc' = "check" /\ dfCloneOk' = TRUE /\ UNCHANGED dfResult
    /\ UNCHANGED <<dfOldDir, dfTodo, dfAttempted, dfProgress>>
    /\ UNCHANGED notDF

\* The check with only the error of ReadDir looked at.
DFCheckoutReadable(files) == files # "unreadable"

\* files, err := os.ReadDir(hyprLunaDir): does the checkout count as cloned?
DFCheckoutUsable(files) == files = "some"

\* The ReadDir check, then the list of the directories that exist.
DFCheck ==
    /\ dfPc = "check"
    /\ IF DFCheckoutUsable(dfFiles)
       THEN /\ dfTodo' = DFInOrder(1, dfExisting)
            /\ dfPc' = "copy"
            /\ UNCHANGED dfResult
       ELSE /\ DFFail("repository cloned but appears to be empty")
            /\ UNCHANGED dfTodo
    /\ UNCHANGED <<dfOldDir, dfCloneOk, dfFiles, dfExisting, dfAttempted, dfProgress>>
    /\ UNCHANGED notDF

\* One turn of the copy loop: MkdirAll, CopyDirWithLowMemory, installProgress++.
DFCopy(outcome) ==
    /\ dfPc = "copy"
    /\ Len(dfTodo) > 0
    /\ dfAttempted' = dfAttempted \cup {Head(dfTodo)}
    /\ CASE outcome = "ok" ->
              /\ dfProgress' = dfProgress + 1
              /\ dfTodo' = Tail(dfTodo)
              /\ UNCHANGED <<dfPc, dfResult>>
         [] outcome = "mkdir" ->
              /\ DFFail("failed to create directory")
              /\ UNCHANGED <<dfProgress, dfTodo>>
         [] outcome = "copy" ->
              /\ DFFail("failed to copy files")
              /\ UNCHANGED <<dfProgress, dfTodo>>
    /\ UNCHANGED <<dfOldDir, dfCloneOk, dfFiles, dfExisting>>
    /\ UNCHANGED notDF

\* The scripts, then return NewCompleteMsg().
DFFinish ==
    /\ dfPc = "copy"
    /\ Len(dfTodo) = 0
    /\ dfPc' = "returned"
    /\ dfResult' = "complete"
    /\ UNCHANGED <<dfOldDir, dfCloneOk, dfFiles, dfExisting, dfTodo, dfAttempted, dfProgress>>
    /\ UNCHANGED notDF

DFNext ==
    \/ \E ok \in BOOLEAN : DFBegin(ok)
    \/ \E ok \in BOOLEAN : DFRemove(ok)
    \/ \E status \in {"nostart", "failed", "ok"}, files \in {"unreadable", "empty", "some"},
          found \in SUBSET DFConfigDirs : DFClone(status, files, found)
    \/ DFCheck
    \/ \E o \in {"ok", "mkdir", "copy"} : DFCopy(o)
    \/ DFFinish

-----------------------------------------------------------------------------
(* Helper.Install: calls one after another (unnamed/part_006) *)

MaxCalls == 6        \* calls of Install explored

HIIdle ==
    /\ hiPc = "idle"
    /\ hiOnPath = FALSE
    /\ hiMessages = <<>>
    /\ hiErr = "nil"
    /\ hiTempDirs = 0
    /\ hiStarted = 0
    /\ hiCalls = 0

\* A Helper from NewHelper; its command may be on the PATH.
HIInit ==
    /\ hiPc = "idle"
    /\ hiOnPath \in BOOLEAN
    /\ hiMessages = <<>>
    /\ hiErr = "nil"
    /\ hiTempDirs = 0
    /\ hiStarted = 0
    /\ hiCalls = 0

\* Install without its guard.
NeverInstalled(onPath) == FALSE

\* h.IsInstalled(): exec.LookPath(h.Command) finds the command.
IsInstalled(onPath) == onPath

\* return messages, err, after the deferred os.Chdir and os.RemoveAll(tempDir)
HIReturn(messages, err) ==
    /\ hiPc' = "idle"
    /\ hiMessages' = messages
    /\ hiErr' = err
    /\ hiTempDirs' = 0

\* Install() up to os.MkdirTemp.
HICall(ok) ==
    /\ hiPc = "idle"
    /\ hiCalls < MaxCalls
    /\ hiCalls' = hiCalls + 1
    /\ hiStarted' = 0
    /\ IF IsInstalled(hiOnPath)
       THEN HIReturn(<<"AUR helper already installed">>, "nil")
       ELSE IF ok
       THEN /\ hiPc' = "chdir"
            /\ hiMessages' = <<"Installing AUR helper...">>
            /\ hiErr' = "nil"
            /\ hiTempDirs' = 1
       ELSE HIReturn(<<"Installing AUR helper...">>,
                     "failed to create temporary directory")
    /\ UNCHANGED hiOnPath
    /\ UNCHANGED notHI

\* os.Getwd(), os.Chdir(tempDir), the pipes of git clone.
HIChdir(ok) ==
    /\ hiPc = "chdir"
    /\ IF ok
       THEN /\ hiPc' = "clone"
            /\ hiMessages' = Append(hiMessages, "Cloning repository...")
            /\ UNCHANGED <<hiErr, hiTempDirs>>
       ELSE HIReturn(hiMessages, "failed to change to temporary directory")
    /\ UNCHANGED <<hiOnPath, hiStarted, hiCalls>>
    /\ UNCHANGED notHI

\* cloneCmd.Start(), cloneCmd.Wait(), os.Chdir(h.Name), the pipes of makepkg.
HIClone(outcome) ==
    /\ hiPc = "clone"
    /\ CASE outcome = "nostart" ->
              /\ HIReturn(hiMessages, "failed to start git clone")
              /\ UNCHANGED hiStarted
         [] outcome = "failed" ->
              /\ HIReturn(hiMessages, "failed to clone repository")
              /\ hiStarted' = hiStarted + 1
         [] outcome = "nodir" ->
              /\ HIReturn(Append(hiMessages, "Repository cloned successfully"),
                          "failed to change to AUR helper directory")
              /\ hiStarted' = hiStarted + 1
         [] outcome = "ok" ->
              /\ hiPc' = "build"
              /\ hiMessages' = hiMessages \o <<"Repository cloned successfully",
                                              "Building and installing...">>
              /\ hiStarted' = hiStarted + 1
              /\ UNCHANGED <<hiErr, hiTempDirs>>
    /\ UNCHANGED <<hiOnPath, hiCalls>>
    /\ UNCHANGED notHI

\* cmd.Start() of makepkg -si, and the final select.
HIBuild(outcome) ==
    /\ hiPc = "build"
    /\ CASE outcome = "nostart" ->
              /\ HIReturn(hiMessages, "failed to start makepkg")
              /\ UNCHANGED <<hiStarted, hiOnPath>>
         [] outcome = "failed" ->
              /\ HIReturn(Append(hiMessages, "Error: ..."),
                          "failed to build and install package")
              /\ hiStarted' = hiStarted + 1
              /\ UNCHANGED hiOnPath
         [] outcome = "timeout" ->
              /\ HIReturn(Append(hiMessages, "Command timed out after 30 minutes"),
                          "command timed out after 30 minutes")
              /\ hiStarted' = hiStarted + 1
              /\ UNCHANGED hiOnPath
         [] outcome = "ok" ->
              /\ HIReturn(Append(hiMessages, "installed successfully"), "nil")
              /\ hiStarted' = hiStarted + 1
              /\ hiOnPath' = TRUE
    /\ UNCHANGED hiCalls
    /\ UNCHANGED notHI

\* Outside the program: the helper is removed from the PATH or put on it.
HIPathChanges ==
    /\ hiPc = "idle"
    /\ hiOnPath' = ~hiOnPath
    /\ UNCHANGED <<hiPc, hiMessages, hiErr, hiTempDirs, hiStarted, hiCalls>>
    /\ UNCHANGED notHI

HINext ==
    \/ \E ok \in BOOLEAN : HICall(ok)
    \/ \E ok \in BOOLEAN : HIChdir(ok)
    \/ \E o \in {"nostart", "failed", "nodir", "ok"} : HIClone(o)
    \/ \E o \in {"nostart", "failed", "timeout", "ok"} : HIBuild(o)
    \/ HIPathChanges

-----------------------------------------------------------------------------
(* startInstallation as a function of the selection and of config.ConfigDirs *)

TSMaxPackages == 9   \* packages selected, at most
TSMaxDirs == 9       \* configuration directories, at most

TSIdle ==
    /\ tsPc = "idle"
    /\ tsPackages = 0
    /\ tsDirs = 0
    /\ tsModel = NewModel

TSInit ==
    /\ tsPc = "ready"
    /\ tsPackages \in 0..TSMaxPackages
    /\ tsDirs \in 0..TSMaxDirs
    /\ tsModel = NewModel

\* The command startInstallation returns, run once.
TSStartInstallation ==
    /\ tsPc = "ready"
    /\ tsPc' = "started"
    /\ tsModel' = [tsModel EXCEPT
                      !.packagesToInstall = [k \in 1..tsPackages |-> k],
                      !.totalSteps = TotalSteps(tsPackages, tsDirs),
                      !.installProgress = 0,
                      !.awaitingPassword = TRUE]
    /\ UNCHANGED <<tsPackages, tsDirs>>
    /\ UNCHANGED notTS

TSNext == TSStartInstallation

-----------------------------------------------------------------------------
(* One output line: the readers of InstallPackages, then Model.AddMessage *)

\* The tokens the two functions look for that the explored lines may hold.
Tokens == {"conflict", "error", "warning", "installing", "installed"}

\* A token is absent from a line, occurs in lower case, or occurs with at
\* least one upper-case letter.
Occurrences == {"absent", "lower", "upper"}

Lines == [Tokens -> Occurrences]

\* strings.ToLower
ToLower(line) ==
    [t \in Tokens |-> IF line[t] = "absent" THEN "absent" ELSE "lower"]

\* strings.Contains(line, token), token written in lower case
Contains(line, token) == line[token] = "lower"

CLIdle ==
    /\ clPc = "idle"
    /\ clLine = [t \in Tokens |-> "absent"]
    /\ clConflictSent = FALSE
    /\ clKept = FALSE
    /\ clType = "none"

CLInit ==
    /\ clPc = "line"
    /\ clLine \in Lines
    /\ clConflictSent = FALSE
    /\ clKept = FALSE
    /\ clType = "none"

\* The body of a reader's loop in InstallPackages for the line.
CLScan ==
    /\ clPc = "line"
    /\ clPc' = "scanned"
    /\ clConflictSent' = Contains(clLine, "conflict")
    /\ clKept' = (\/ Contains(clLine, "error")
                  \/ Contains(clLine, "warning")
                  \/ Contains(clLine, "installing")
                  \/ Contains(clLine, "conflict"))
    /\ UNCHANGED <<clLine, clType>>
    /\ UNCHANGED notCL

\* The type AddMessage picks for content, a line that holds none of failed,
\* caution, success, complete and debug.
AddMessageType(content) ==
    LET lowerContent == ToLower(content)
    IN  IF \/ Contains(lowerContent, "error")
           \/ Contains(lowerContent, "conflict")
        THEN "error"
        ELSE IF Contains(lowerContent, "warning")
        THEN "warning"
        ELSE IF Contains(lowerContent, "installed")
        THEN "success"
        ELSE "info"

\* installNextPackage hands a kept line to AddMessage.
CLAddMessage ==
    /\ clPc = "scanned"
    /\ clKept
    /\ clPc' = "added"
    /\ clType' = AddMessageType(clLine)
    /\ UNCHANGED <<clLine, clConflictSent, clKept>>
    /\ UNCHANGED notCL

CLNext ==
    \/ CLScan
    \/ CLAddMessage

-----------------------------------------------------------------------------
(* The messages slice of Helper.Install and of Helper.InstallPackages *)

MLMaxLines == 64       \* messageCount of InstallPackages, at most
MLMaxCloneLines == 2   \* lines of git clone that Install keeps, at most
MLMaxLen == 54         \* len(messages) up to which the readers of Install go on

InstallLimit == 50
InstallHead == 25
InstallTail == 24
CountThreshold == 50
TrimEvery == 10
LenThreshold == 40
PackagesHead == 20
PackagesTail == 20

Readers == {"stdout", "stderr"}

MLIdle ==
    /\ mlFn = "none"
    /\ mlLen = 0
    /\ mlCount = 0
    /\ mlPc = [g \in Readers |-> "eof"]
    /\ mlLocal = [g \in Readers |-> 0]
    /\ mlReturned = FALSE

\* The length of the slice when the readers start: Install has written "Installing ...",
\* "Cloning ...", the kept lines of git clone, "Repository cloned
\* successfully" and "Building and installing ..."; InstallPackages has written
\* "Installing packages: ...", the sudo line and, with a password, "Sent sudo
\* password to command", and has set messageCount to 2.
MLInit ==
    /\ mlFn \in {"Install", "InstallPackages"}
    /\ \/ /\ mlFn = "Install"
          /\ mlLen \in 4..(4 + MLMaxCloneLines)
          /\ mlCount = 0
       \/ /\ mlFn = "InstallPackages"
          /\ mlLen \in 2..3
          /\ mlCount = 2
    /\ mlPc = [g \in Readers |-> "read"]
    /\ mlLocal = [g \in Readers |-> 0]
    /\ mlReturned = FALSE

\* The length of: the first head entries, the truncation marker, the last
\* tail entries (the slice holds more than head and more than tail entries).
KeepEnds(head, tail) == head + 1 + tail

\* A reader of InstallPackages keeps a line: under messagesMutex it appends,
\* counts, and now and then truncates.
MLKeep(g) ==
    /\ mlFn = "InstallPackages"
    /\ mlPc[g] = "read"
    /\ mlCount < MLMaxLines
    /\ mlCount' = mlCount + 1
    /\ LET appended == mlLen + 1
       IN  mlLen' =
               IF /\ mlCount' > CountThreshold
                  /\ mlCount' % TrimEvery = 0
                  /\ appended > LenThreshold
               THEN KeepEnds(PackagesHead, PackagesTail)
               ELSE appended
    /\ UNCHANGED <<mlFn, mlPc, mlLocal, mlReturned>>
    /\ UNCHANGED notML

\* A reader of Install keeps a line: append reads the slice ...
MLLoad(g) ==
    /\ mlFn = "Install"
    /\ mlPc[g] = "read"
    /\ mlLen < MLMaxLen
    /\ mlLocal' = [mlLocal EXCEPT ![g] = mlLen]
    /\ mlPc' = [mlPc EXCEPT ![g] = "store"]
    /\ UNCHANGED <<mlFn, mlLen, mlCount, mlReturned>>
    /\ UNCHANGED notML

\* ... and stores the longer one, with no lock against the other reader.
MLStore(g) ==
    /\ mlPc[g] = "store"
    /\ mlLen' = mlLocal[g] + 1
    /\ mlPc' = [mlPc EXCEPT ![g] = "trim"]
    /\ UNCHANGED <<mlFn, mlCount, mlLocal, mlReturned>>
    /\ UNCHANGED notML

\* if len(messages) > 50 { ... }
MLTrim(g) ==
    /\ mlPc[g] = "trim"
    /\ mlLen' = IF mlLen > InstallLimit
                 THEN KeepEnds(InstallHead, InstallTail)
                 ELSE mlLen
    /\ mlPc' = [mlPc EXCEPT ![g] = "read"]
    /\ UNCHANGED <<mlFn, mlCount, mlLocal, mlReturned>>
    /\ UNCHANGED notML

\* The reader's stream ends, with a read error (one more entry) or without.
MLEnd(g, failed) ==
    /\ mlFn # "none"
    /\ mlPc[g] = "read"
    /\ mlPc' = [mlPc EXCEPT ![g] = "eof"]
    /\ mlLen' = IF failed THEN mlLen + 1 ELSE mlLen
    /\ UNCHANGED <<mlFn, mlCount, mlLocal, mlReturned>>
    /\ UNCHANGED notML

\* After <-outputDone the function appends its last entry and returns the
\* slice.
\* InstallPackages waits for both readers, Install for the stderr loop only.
MLReturn ==
    /\ mlFn # "none"
    /\ ~mlReturned
    /\ mlPc["stderr"] = "eof"
    /\ mlFn = "InstallPackages" => mlPc["stdout"] = "eof"
    /\ mlLen' = mlLen + 1
    /\ mlReturned' = TRUE
    /\ UNCHANGED <<mlFn, mlCount, mlPc, mlLocal>>
    /\ UNCHANGED notML

MLNext ==
    \/ \E g \in Readers : MLKeep(g)
    \/ \E g \in Readers : MLLoad(g)
    \/ \E g \in Readers : MLStore(g)
    \/ \E g \in Readers : MLTrim(g)
    \/ \E g \in Readers, failed \in BOOLEAN : MLEnd(g, failed)
    \/ MLReturn

-----------------------------------------------------------------------------
(* The output pipes of a subprocess and the goroutines that read them *)

PipeCap == 2         \* pipe buffer, in blocks
DRMaxOutput == 3     \* blocks the subprocess writes to one stream, at most

Streams == {"stdout", "stderr"}

DrainedFns == {"InstallClone", "InstallBuild", "InstallPackages", "DotfilesClone"}

\* Install reads git clone through one scanner over
\* io.MultiReader(cloneStdout, cloneStderr): stderr is read after stdout's end.
OneReader(fn) == fn = "InstallClone"

\* The readers that are a bufio.Scanner stop at a line longer than their
\* buffer; Install reads makepkg with ReadString.
ScannerReads(fn) == fn \in {"InstallClone", "InstallPackages", "DotfilesClone"}

\* Install (makepkg) and InstallPackages select on time.After(30 * time.Minute)
\* and kill; the two clones are waited for with cmd.Wait() alone.
HasTimer(fn) == fn \in {"InstallBuild", "InstallPackages"}

DRIdle ==
    /\ drFn = "none"
    /\ drChild = "exited"
    /\ drToWrite = [s \in Streams |-> 0]
    /\ drPipe = [s \in Streams |-> 0]
    /\ drReader = [s \in Streams |-> "eof"]

\* After cmd.Start() and the go statements.
DRInit ==
    /\ drFn \in DrainedFns
    /\ drChild = "run"
    /\ drToWrite \in [Streams -> 0..DRMaxOutput]
    /\ drPipe = [s \in Streams |-> 0]
    /\ drReader = [s \in Streams |->
                      IF OneReader(drFn) /\ s = "stderr" THEN "waiting" ELSE "reading"]

\* The subprocess writes a block; the write blocks while the pipe is full.
DRWrite(s) ==
    /\ drChild = "run"
    /\ drToWrite[s] > 0
    /\ drPipe[s] < PipeCap
    /\ drToWrite' = [drToWrite EXCEPT ![s] = @ - 1]
    /\ drPipe' = [drPipe EXCEPT ![s] = @ + 1]
    /\ UNCHANGED <<drFn, drChild, drReader>>
    /\ UNCHANGED notDR

\* The subprocess has written everything and exits.
DRExit ==
    /\ drChild = "run"
    /\ \A s \in Streams : drToWrite[s] = 0
    /\ drChild' = "exited"
    /\ UNCHANGED <<drFn, drToWrite, drPipe, drReader>>
    /\ UNCHANGED notDR

\* The reader of stream s takes a block out of the pipe.
DRRead(s) ==
    /\ drReader[s] = "reading"
    /\ drPipe[s] > 0
    /\ drPipe' = [drPipe EXCEPT ![s] = @ - 1]
    /\ UNCHANGED <<drFn, drChild, drToWrite, drReader>>
    /\ UNCHANGED notDR

\* The reader of stream s meets a line longer than the scanner's buffer:
\* Scan returns false and the loop ends.
DRLongLine(s) ==
    /\ ScannerReads(drFn)
    /\ drReader[s] = "reading"
    /\ drPipe[s] > 0
    /\ drReader' = [drReader EXCEPT ![s] = "stopped"]
    /\ UNCHANGED <<drFn, drChild, drToWrite, drPipe>>
    /\ UNCHANGED notDR

\* The reader of stream s sees the end of the stream: every writer has gone.
\* A MultiReader goes on with the next stream.
DREof(s) ==
    /\ drReader[s] = "reading"
    /\ drPipe[s] = 0
    /\ drChild # "run"
    /\ drReader' = [t \in Streams |->
                       IF t = s THEN "eof"
                       ELSE IF drReader[t] = "waiting" THEN "reading"
                       ELSE drReader[t]]
    /\ UNCHANGED <<drFn, drChild, drToWrite, drPipe>>
    /\ UNCHANGED notDR

\* case <-time.After(30 * time.Minute): cmd.Process.Kill()
DRTimeout ==
    /\ HasTimer(drFn)
    /\ drChild = "run"
    /\ drChild' = "killed"
    /\ drToWrite' = [s \in Streams |-> 0]
    /\ UNCHANGED <<drFn, drPipe, drReader>>
    /\ UNCHANGED notDR

DRNext ==
    \/ \E s \in Streams : DRWrite(s)
    \/ DRExit
    \/ \E s \in Streams : DRRead(s)
    \/ \E s \in Streams : DRLongLine(s)
    \/ \E s \in Streams : DREof(s)
    \/ DRTimeout

-----------------------------------------------------------------------------
(* The order of the entries of the messages slice *)

ORMaxCount == 61     \* messageCount of InstallPackages, at most
ORMaxLen == 51       \* len(messages) up to which the readers of Install go on
ORMaxStale == 1      \* writes of the slice by one reader of Install between the
                     \* other reader's read of the slice and its write

\* Two lines of one stream are followed, "first" written before "second";
\* every other entry of the slice is "other".
Others(n) == [j \in 1..n |-> "other"]

ORLines == {"other", "first", "second"}

ORIdle ==
    /\ orFn = "none"
    /\ orTracked = "stdout"
    /\ orMessages = <<>>
    /\ orCount = 0
    /\ orPc = [g \in Readers |-> "eof"]
    /\ orLocal = [g \in Readers |-> <<>>]
    /\ orNext = "first"
    /\ orStale = [g \in Readers |-> 0]
    /\ orTruncated = FALSE

\* The slice when the readers start (see MLInit).
ORInit ==
    /\ orFn \in {"Install", "InstallPackages"}
    /\ orTracked \in Readers
    /\ \/ /\ orFn = "Install"
          /\ orMessages = Others(4)
          /\ orCount = 0
       \/ /\ orFn = "InstallPackages"
          /\ orMessages = Others(3)
          /\ orCount = 2
    /\ orPc = [g \in Readers |-> "read"]
    /\ orLocal = [g \in Readers |-> <<>>]
    /\ orNext = "first"
    /\ orStale = [g \in Readers |-> 0]
    /\ orTruncated = FALSE

\* A truncation that puts the last entries first.
TailFirst(messages, head, tail) ==
    SubSeq(messages, Len(messages) - tail + 1, Len(messages)) \o <<"other">>
        \o SubSeq(messages, 1, head)

\* The first head entries, the truncation marker, the last tail entries.
KeepEndsOf(messages, head, tail) ==
    SubSeq(messages, 1, head) \o <<"other">>
        \o SubSeq(messages, Len(messages) - tail + 1, Len(messages))

\* What follows the line in the tracked stream.
ORAfter(line) == IF line = "first" THEN "second" ELSE "done"

\* A reader of InstallPackages keeps a line, under messagesMutex.
ORKeep(g, line) ==
    /\ orFn = "InstallPackages"
    /\ orPc[g] = "read"
    /\ orCount < ORMaxCount
    /\ line = "other" \/ (g = orTracked /\ line = orNext)
    /\ orNext' = IF line = "other" THEN orNext ELSE ORAfter(line)
    /\ orCount' = orCount + 1
    /\ LET appended == Append(orMessages, line)
           cut == /\ orCount' > CountThreshold
                  /\ orCount' % TrimEvery = 0
                  /\ Len(appended) > LenThreshold
       IN  /\ orMessages' = IF cut
                            THEN KeepEndsOf(appended, PackagesHead, PackagesTail)
                            ELSE appended
           /\ orTruncated' = (orTruncated \/ cut)
    /\ UNCHANGED <<orFn, orTracked, orPc, orLocal, orStale>>
    /\ UNCHANGED notOR

\* Reader g of Install writes the slice: the other reader, if it is between
\* its read and its write, has one more write to overwrite.
ORMayWrite(g) ==
    \A h \in Readers \ {g} : orPc[h] = "store" => orStale[h] < ORMaxStale

ORWritten(g) ==
    orStale' = [h \in Readers |->
                   IF h # g /\ orPc[h] = "store" THEN orStale[h] + 1 ELSE 0]

\* A reader of Install keeps a line: append reads the slice and builds the
\* longer one ...
ORLoad(g, line) ==
    /\ orFn = "Install"
    /\ orPc[g] = "read"
    /\ Len(orMessages) < ORMaxLen
    /\ line = "other" \/ (g = orTracked /\ line = orNext)
    /\ orNext' = IF line = "other" THEN orNext ELSE ORAfter(line)
    /\ orLocal' = [orLocal EXCEPT ![g] = Append(orMessages, line)]
    /\ orPc' = [orPc EXCEPT ![g] = "store"]
    /\ orStale' = [orStale EXCEPT ![g] = 0]
    /\ UNCHANGED <<orFn, orTracked, orMessages, orCount, orTruncated>>
    /\ UNCHANGED notOR

\* ... and stores it.
ORStore(g) ==
    /\ orPc[g] = "store"
    /\ ORMayWrite(g)
    /\ ORWritten(g)
    /\ orMessages' = orLocal[g]
    /\ orLocal' = [orLocal EXCEPT ![g] = <<>>]
    /\ orPc' = [orPc EXCEPT ![g] = "trim"]
    /\ UNCHANGED <<orFn, orTracked, orCount, orNext, orTruncated>>
    /\ UNCHANGED notOR

\* if len(messages) > 50 { ... }
ORTrim(g) ==
    /\ orPc[g] = "trim"
    /\ ORMayWrite(g)
    /\ ORWritten(g)
    /\ LET cut == Len(orMessages) > InstallLimit
       IN  /\ orMessages' = IF cut
                            THEN KeepEndsOf(orMessages, InstallHead, InstallTail)
                            ELSE orMessages
           /\ orTruncated' = (orTruncated \/ cut)
    /\ orPc' = [orPc EXCEPT ![g] = "read"]
    /\ UNCHANGED <<orFn, orTracked, orCount, orLocal, orNext>>
    /\ UNCHANGED notOR

ORNext ==
    \/ \E g \in Readers, line \in ORLines : ORKeep(g, line)
    \/ \E g \in Readers, line \in ORLines : ORLoad(g, line)
    \/ \E g \in Readers : ORStore(g)
    \/ \E g \in Readers : ORTrim(g)

-----------------------------------------------------------------------------
(* The helper step of a session: installProgress against totalSteps
   (pkg/tui/commands.go) *)

PGMaxPackages == 3   \* packages selected
PGMaxDirs == 2       \* entries of config.ConfigDirs
PGMaxProgress == 11  \* installProgress values explored

PGIdle ==
    /\ pgPc = "idle"
    /\ pgM = [installProgress |-> 0, totalSteps |-> 0, aurHelperInstalled |-> FALSE]
    /\ pgMsg = [Progress |-> 0, Total |-> 0]

\* startInstallation and the password: installProgress = 0, totalSteps counted,
\* then handleInstallProgress calls continueInstallation.
PGInit ==
    /\ pgPc = "continue"
    /\ \E packages \in 1..PGMaxPackages, dirs \in 1..PGMaxDirs :
          pgM = [installProgress |-> 0,
                 totalSteps |-> TotalSteps(packages, dirs),
                 aurHelperInstalled |-> FALSE]
    /\ pgMsg = [Progress |-> 0, Total |-> 0]

\* continueInstallation: installAURHelper while the helper is not installed,
\* which opens with m.installProgress++.
PGContinue ==
    /\ pgPc = "continue"
    /\ IF pgM.aurHelperInstalled
       THEN pgPc' = "packages" /\ UNCHANGED pgM
       ELSE /\ pgM.installProgress < PGMaxProgress
            /\ pgM' = [pgM EXCEPT !.installProgress = @ + 1]
            /\ pgPc' = "select"
    /\ UNCHANGED pgMsg
    /\ UNCHANGED notPG

\* installAURHelper's select: every case returns a message.
PGSelect(branch) ==
    /\ pgPc = "select"
    /\ pgMsg' = [Progress |-> pgM.installProgress, Total |-> pgM.totalSteps]
    /\ CASE branch \in {"message", "tick"} ->
              pgPc' = "deliver" /\ UNCHANGED pgM
         [] branch = "done" ->
              /\ pgPc' = "deliver"
              /\ pgM' = [pgM EXCEPT !.aurHelperInstalled = TRUE]
         [] branch \in {"error", "timeout"} ->
              pgPc' = "failed" /\ UNCHANGED pgM
    /\ UNCHANGED notPG

\* handleInstallProgress: the message's Progress and Total are stored and
\* continueInstallation is called.
PGHandle ==
    /\ pgPc = "deliver"
    /\ pgM' = [pgM EXCEPT !.installProgress = pgMsg.Progress,
                          !.totalSteps = pgMsg.Total]
    /\ pgPc' = "continue"
    /\ UNCHANGED pgMsg
    /\ UNCHANGED notPG

PGNext ==
    \/ PGContinue
    \/ \E branch \in AurBranches : PGSelect(branch)
    \/ PGHandle

-----------------------------------------------------------------------------
(* NewModel's closures: the objects startInstallation and the page updaters
   work on (pkg/tui/model.go, update.go, router.go, commands.go) *)

SNMaxKeys == 6       \* keys pressed in one run
SNMaxSelected == 2   \* entries appended to selectedOptions
SNBasePackages == 2  \* len(config.BasePackages)

\* The Model literal of NewModel.
SNNew ==
    [aurHelper |-> FALSE, aurHelperIndex |-> 0, aurHelperInstalled |-> FALSE,
     awaitingPassword |-> FALSE, packagesToInstall |-> 0, totalSteps |-> 0]

SNIdle ==
    /\ snPage = WelcomePage
    /\ snHistory = <<>>
    /\ snProg = SNNew
    /\ snLocal = SNNew
    /\ snSelected = 0
    /\ snCmds = <<>>
    /\ snStep = "none"
    /\ snSeen = 0
    /\ snSubmitted = FALSE
    /\ snKeys = 0

\* tea.NewProgram(NewModel()): the program holds a copy of NewModel's m.
SNInit ==
    /\ snPage = WelcomePage
    /\ snHistory = <<>>
    /\ snProg = SNNew
    /\ snLocal = SNNew
    /\ snSelected = 0
    /\ snCmds = <<>>
    /\ snStep = "none"
    /\ snSeen = 0
    /\ snSubmitted = FALSE
    /\ snKeys = 0

\* One more tea.KeyMsg reaches Update while the program runs.
SNPressed ==
    /\ snStep = "none"
    /\ snKeys < SNMaxKeys
    /\ snKeys' = snKeys + 1

\* Router.Navigate(to, m); the transition to InstallationPage returns
\* m.startInstallation(), m being NewModel's variable.
SNNavigate(to) ==
    /\ snPage' = to
    /\ snHistory' = Append(snHistory, snPage)
    /\ snCmds' = IF snPage = PackageCategoriesPage /\ to = InstallationPage
                 THEN Append(snCmds, [kind |-> "start", m |-> SNNew, Total |-> 0])
                 ELSE snCmds

\* sequence s without its k-th element
SNWithout(s, k) == SubSeq(s, 1, k - 1) \o SubSeq(s, k + 1, Len(s))

\* route.Updater(msg): the method value registered by NewModel, whose receiver
\* is the copy of m made at registration.
SNUpdater == SNNew

\* Update(tea.KeyMsg), Enter: handlePasswordInput while the program's Model
\* awaits the password, the current route's updater otherwise.
SNEnter ==
    /\ SNPressed
    /\ IF snProg.awaitingPassword
       THEN /\ snProg' = [snProg EXCEPT !.awaitingPassword = FALSE]
            /\ snSubmitted' = TRUE
            /\ snCmds' = Append(snCmds, [kind |-> "continue", m |-> snProg', Total |-> 0])
            /\ UNCHANGED <<snPage, snHistory, snSelected>>
       ELSE /\ UNCHANGED snSubmitted
            /\ CASE snPage = WelcomePage ->
                      /\ snProg' = SNUpdater
                      /\ SNNavigate(AURHelperPage)
                      /\ UNCHANGED snSelected
                 [] snPage = AURHelperPage ->
                      /\ snSelected < SNMaxSelected
                      /\ snSelected' = snSelected + 1
                      /\ snProg' = [SNUpdater EXCEPT !.aurHelper = TRUE]
                      /\ SNNavigate(PackageCategoriesPage)
                 [] OTHER ->
                      /\ snProg' = SNUpdater
                      /\ UNCHANGED <<snPage, snHistory, snSelected, snCmds>>
    /\ UNCHANGED <<snLocal, snStep, snSeen>>
    /\ UNCHANGED notSN

\* Update(tea.KeyMsg), Down on the helper page.
SNDown ==
    /\ SNPressed
    /\ ~snProg.awaitingPassword
    /\ snPage = AURHelperPage
    /\ snProg' = [SNUpdater EXCEPT !.aurHelperIndex = 1]
    /\ UNCHANGED <<snPage, snHistory, snLocal, snSelected, snCmds, snStep, snSeen,
                   snSubmitted>>
    /\ UNCHANGED notSN

\* Update(tea.KeyMsg), Right on the categories page.
SNRight ==
    /\ SNPressed
    /\ ~snProg.awaitingPassword
    /\ snPage = PackageCategoriesPage
    /\ snProg' = SNUpdater
    /\ SNNavigate(InstallationPage)
    /\ UNCHANGED <<snLocal, snSelected, snStep, snSeen, snSubmitted>>
    /\ UNCHANGED notSN

\* Update(tea.KeyMsg), Back: Router.Back(m) with Update's own Model.
SNBack ==
    /\ SNPressed
    /\ ~snProg.awaitingPassword
    /\ Len(snHistory) > 0
    /\ snPage' = snHistory[Len(snHistory)]
    /\ snHistory' = Take(snHistory, Len(snHistory) - 1)
    /\ UNCHANGED <<snProg, snLocal, snSelected, snCmds, snStep, snSeen, snSubmitted>>
    /\ UNCHANGED notSN

\* The command of startInstallation runs: it writes NewModel's variable.
SNStartInstallation(k) ==
    /\ snStep = "none"
    /\ k \in 1..Len(snCmds)
    /\ snCmds[k].kind = "start"
    /\ LET packages == SNBasePackages + snSelected
           total == TotalSteps(packages, NumConfigDirs)
       IN  /\ snLocal' = [snLocal EXCEPT !.packagesToInstall = packages,
                                         !.totalSteps = total,
                                         !.awaitingPassword = TRUE]
           /\ snCmds' = [snCmds EXCEPT ![k] = [kind |-> "msg", m |-> SNNew,
                                               Total |-> total]]
    /\ UNCHANGED <<snPage, snHistory, snProg, snSelected, snStep, snSeen, snSubmitted,
                   snKeys>>
    /\ UNCHANGED notSN

\* Update(InstallProgressMsg): handleInstallProgress on the program's Model.
SNHandleProgress(k) ==
    /\ snStep = "none"
    /\ k \in 1..Len(snCmds)
    /\ snCmds[k].kind = "msg"
    /\ snProg' = [snProg EXCEPT !.totalSteps = snCmds[k].Total]
    /\ snCmds' = IF snProg.awaitingPassword
                 THEN SNWithout(snCmds, k)
                 ELSE [snCmds EXCEPT ![k] = [kind |-> "continue", m |-> snProg',
                                             Total |-> 0]]
    /\ UNCHANGED <<snPage, snHistory, snLocal, snSelected, snStep, snSeen, snSubmitted,
                   snKeys>>
    /\ UNCHANGED notSN

\* The command of continueInstallation runs on the copy it is bound to:
\* installAURHelper, which dereferences m.aurHelper.
SNContinue(k) ==
    /\ snStep = "none"
    /\ k \in 1..Len(snCmds)
    /\ snCmds[k].kind = "continue"
    /\ ~snCmds[k].m.aurHelperInstalled
    /\ snStep' = IF snCmds[k].m.aurHelper THEN "helper" ELSE "panic"
    /\ snSeen' = snCmds[k].m.packagesToInstall
    /\ snCmds' = SNWithout(snCmds, k)
    /\ UNCHANGED <<snPage, snHistory, snProg, snLocal, snSelected, snSubmitted, snKeys>>
    /\ UNCHANGED notSN

SNNext ==
    \/ SNEnter
    \/ SNDown
    \/ SNRight
    \/ SNBack
    \/ \E k \in 1..SNMaxKeys : SNStartInstallation(k)
    \/ \E k \in 1..SNMaxKeys : SNHandleProgress(k)
    \/ \E k \in 1..SNMaxKeys : SNContinue(k)

-----------------------------------------------------------------------------
(* installDotfiles: updateCh, its senders and its close (pkg/tui/commands.go) *)

UCMaxLines == 2      \* lines git clone writes to one stream, at most
UCMaxUpdates == 1    \* updates installDotfiles sends after the clone

UpdateCap == 5

UCIdle ==
    /\ ucMain = "returned"
    /\ ucChild = "exited"
    /\ ucPipe = [s \in Streams |-> 0]
    /\ ucPipeOpen = FALSE
    /\ ucBuf = [s \in Streams |-> 0]
    /\ ucReader = [s \in Streams |-> "done"]
    /\ ucChan = 0
    /\ ucClosed = TRUE
    /\ ucLeft = 0
    /\ ucPanic = FALSE

\* cmd.Start() has succeeded and the readers are started; git clone has
\* written its lines; updateCh holds what the consumer has not taken yet.
UCInit ==
    /\ ucMain = "wait"
    /\ ucChild = "run"
    /\ ucPipe \in [Streams -> 0..UCMaxLines]
    /\ ucPipeOpen = TRUE
    /\ ucBuf = [s \in Streams |-> 0]
    /\ ucReader = [s \in Streams |-> "scan"]
    /\ ucChan \in {0, UpdateCap}
    /\ ucClosed = FALSE
    /\ ucLeft = UCMaxUpdates
    /\ ucPanic = FALSE

\* git clone exits.
UCExit ==
    /\ ucChild = "run"
    /\ ucChild' = "exited"
    /\ UNCHANGED <<ucMain, ucPipe, ucPipeOpen, ucBuf, ucReader, ucChan, ucClosed, ucLeft,
                   ucPanic>>
    /\ UNCHANGED notUC

\* Scanner.Scan(): a line from the buffer; or a read of the pipe into the
\* buffer; or, at the end of the output or on the closed file, the loop ends.
UCScan(s) ==
    /\ ~ucPanic
    /\ ucReader[s] = "scan"
    /\ IF ucBuf[s] > 0
       THEN /\ ucBuf' = [ucBuf EXCEPT ![s] = @ - 1]
            /\ ucReader' = [ucReader EXCEPT ![s] = "send"]
            /\ UNCHANGED ucPipe
       ELSE IF ucPipeOpen /\ ucPipe[s] > 0
       THEN /\ ucBuf' = [ucBuf EXCEPT ![s] = ucPipe[s]]
            /\ ucPipe' = [ucPipe EXCEPT ![s] = 0]
            /\ UNCHANGED ucReader
       ELSE /\ ~ucPipeOpen \/ ucChild = "exited"
            /\ ucReader' = [ucReader EXCEPT ![s] = "done"]
            /\ UNCHANGED <<ucBuf, ucPipe>>
    /\ UNCHANGED <<ucMain, ucChild, ucPipeOpen, ucChan, ucClosed, ucLeft, ucPanic>>
    /\ UNCHANGED notUC

\* updateCh <- line: blocks while the buffer is full, panics once the channel
\* is closed.
UCSend(s) ==
    /\ ~ucPanic
    /\ ucReader[s] = "send"
    /\ IF ucClosed
       THEN ucPanic' = TRUE /\ UNCHANGED <<ucChan, ucReader>>
       ELSE /\ ucChan < UpdateCap
            /\ ucChan' = ucChan + 1
            /\ ucReader' = [ucReader EXCEPT ![s] = "scan"]
            /\ UNCHANGED ucPanic
    /\ UNCHANGED <<ucMain, ucChild, ucPipe, ucPipeOpen, ucBuf, ucClosed, ucLeft>>
    /\ UNCHANGED notUC

\* for msg := range updateCh { ...; time.Sleep(100 * time.Millisecond) }
UCConsume ==
    /\ ~ucPanic
    /\ ucChan > 0
    /\ ucChan' = ucChan - 1
    /\ UNCHANGED <<ucMain, ucChild, ucPipe, ucPipeOpen, ucBuf, ucReader, ucClosed, ucLeft,
                   ucPanic>>
    /\ UNCHANGED notUC

\* err = cmd.Wait(): git clone is gone, the parent's read ends are closed.
UCWait ==
    /\ ~ucPanic
    /\ ucMain = "wait"
    /\ ucChild = "exited"
    /\ ucMain' = "drain"
    /\ ucPipeOpen' = FALSE
    /\ UNCHANGED <<ucChild, ucPipe, ucBuf, ucReader, ucChan, ucClosed, ucLeft, ucPanic>>
    /\ UNCHANGED notUC

\* <-outputDone, closed when the stderr loop has ended; then, git clone having
\* failed, close(updateCh) and return, or else the function goes on.
UCDrain(failed) ==
    /\ ~ucPanic
    /\ ucMain = "drain"
    /\ ucReader["stderr"] = "done"
    /\ IF failed
       THEN ucMain' = "returned" /\ ucClosed' = TRUE
       ELSE ucMain' = "copy" /\ UNCHANGED ucClosed
    /\ UNCHANGED <<ucChild, ucPipe, ucPipeOpen, ucBuf, ucReader, ucChan, ucLeft, ucPanic>>
    /\ UNCHANGED notUC

\* installDotfiles sends an update of its own; after the last one,
\* close(updateCh).
UCUpdate ==
    /\ ~ucPanic
    /\ ucMain = "copy"
    /\ IF ucLeft > 0
       THEN /\ ucChan < UpdateCap
            /\ ucChan' = ucChan + 1
            /\ ucLeft' = ucLeft - 1
            /\ UNCHANGED <<ucMain, ucClosed>>
       ELSE /\ ucMain' = "returned"
            /\ ucClosed' = TRUE
            /\ UNCHANGED <<ucChan, ucLeft>>
    /\ UNCHANGED <<ucChild, ucPipe, ucPipeOpen, ucBuf, ucReader, ucPanic>>
    /\ UNCHANGED notUC

UCNext ==
    \/ UCExit
    \/ \E s \in Streams : UCScan(s)
    \/ \E s \in Streams : UCSend(s)
    \/ UCConsume
    \/ UCWait
    \/ \E failed \in BOOLEAN : UCDrain(failed)
    \/ UCUpdate

-----------------------------------------------------------------------------
(* utils.CopyDirWithLowMemory: the walker, the tasks channel and the workers
   (unnamed/part_010) *)

CPMaxTasks == 4      \* entries below src
CPMaxWorkers == 2    \* numWorkers, at most
CPTaskCap == 2       \* capacity of the tasks channel explored (100 in the source)

CPIds == 1..CPMaxWorkers

\* The trees filepath.Walk can go through, as lists in its order (a directory
\* before its entries, each entry below a directory that comes earlier and
\* still has the walk inside it).
RECURSIVE CPAncestors(_, _)
CPAncestors(t, i) == IF i = 0 THEN {0} ELSE {i} \cup CPAncestors(t, t[i].parent)

CPTrees ==
    UNION {{t \in [1..n -> [isDir : BOOLEAN, parent : 0..(CPMaxTasks - 1)]] :
               \A i \in 1..n :
                   /\ t[i].parent < i
                   /\ t[i].parent # 0 => t[t[i].parent].isDir
                   /\ i > 1 => t[i].parent \in
                         CPAncestors(t, IF t[i - 1].isDir THEN i - 1 ELSE t[i - 1].parent)} :
           n \in 1..CPMaxTasks}

CPIdleWorker == [pc |-> "idle", task |-> 0]

CPIdle ==
    /\ cpTree = <<>>
    /\ cpWorkers = 1
    /\ cpWalker = "returned"
    /\ cpSent = 0
    /\ cpTaken = 0
    /\ cpClosed = TRUE
    /\ cpWorker = [w \in CPIds |-> [pc |-> "exited", task |-> 0]]
    /\ cpErrors = 0
    /\ cpWalkErr = FALSE
    /\ cpResult = "nil"

\* os.Stat and os.MkdirAll(dst) have succeeded; the workers are started.
CPInit ==
    /\ cpTree \in CPTrees
    /\ cpWorkers \in 1..CPMaxWorkers
    /\ cpWalker = "walk"
    /\ cpSent = 0
    /\ cpTaken = 0
    /\ cpClosed = FALSE
    /\ cpWorker = [w \in CPIds |-> IF w <= cpWorkers THEN CPIdleWorker
                                   ELSE [pc |-> "exited", task |-> 0]]
    /\ cpErrors = 0
    /\ cpWalkErr = FALSE
    /\ cpResult = "none"

\* filepath.Walk's callback for the next entry: tasks <- copyTask{...}, which
\* blocks while the channel is full; or Walk ends with an error, and the
\* function goes on to close(tasks).
CPWalk(ok) ==
    /\ cpWalker = "walk"
    /\ cpSent < Len(cpTree)
    /\ IF ok
       THEN /\ cpSent - cpTaken < CPTaskCap
            /\ cpSent' = cpSent + 1
            /\ UNCHANGED <<cpWalker, cpClosed, cpWalkErr>>
       ELSE /\ cpWalkErr' = TRUE
            /\ cpClosed' = TRUE
            /\ cpWalker' = "wait"
            /\ UNCHANGED cpSent
    /\ UNCHANGED <<cpTree, cpWorkers, cpTaken, cpWorker, cpErrors, cpResult>>
    /\ UNCHANGED notCP

\* filepath.Walk has gone through the tree: close(tasks).
CPClose ==
    /\ cpWalker = "walk"
    /\ cpSent = Len(cpTree)
    /\ cpClosed' = TRUE
    /\ cpWalker' = "wait"
    /\ UNCHANGED <<cpTree, cpWorkers, cpSent, cpTaken, cpWorker, cpErrors, cpWalkErr,
                   cpResult>>
    /\ UNCHANGED notCP

\* for task := range tasks: the next task, or the end of the loop on the
\* closed and empty channel (wg.Done).
CPTake(w) ==
    /\ cpWorker[w].pc = "idle"
    /\ IF cpTaken < cpSent
       THEN /\ cpTaken' = cpTaken + 1
            /\ cpWorker' = [cpWorker EXCEPT ![w] = [pc |-> "busy", task |-> cpTaken + 1]]
       ELSE /\ cpClosed
            /\ cpWorker' = [cpWorker EXCEPT ![w] = [pc |-> "exited", task |-> 0]]
            /\ UNCHANGED cpTaken
    /\ UNCHANGED <<cpTree, cpWorkers, cpWalker, cpSent, cpClosed, cpErrors, cpWalkErr,
                   cpResult>>
    /\ UNCHANGED notCP

\* os.MkdirAll or copyFileWithSmallBuffer for the task: on an error the worker
\* sends it to errCh and returns.
CPExec(w, ok) ==
    /\ cpWorker[w].pc = "busy"
    /\ IF ok
       THEN /\ cpWorker' = [cpWorker EXCEPT ![w] = CPIdleWorker]
            /\ UNCHANGED cpErrors
       ELSE /\ cpWorker' = [cpWorker EXCEPT ![w] = [pc |-> "exited", task |-> 0]]
            /\ cpErrors' = cpErrors + 1
    /\ UNCHANGED <<cpTree, cpWorkers, cpWalker, cpSent, cpTaken, cpClosed, cpWalkErr,
                   cpResult>>
    /\ UNCHANGED notCP

\* wg.Wait(), then the error of errCh if there is one, Walk's error otherwise.
CPReturn ==
    /\ cpWalker = "wait"
    /\ \A w \in CPIds : cpWorker[w].pc = "exited"
    /\ cpWalker' = "returned"
    /\ cpResult' = IF cpErrors > 0 \/ cpWalkErr THEN "error" ELSE "nil"
    /\ UNCHANGED <<cpTree, cpWorkers, cpSent, cpTaken, cpClosed, cpWorker, cpErrors,
                   cpWalkErr>>
    /\ UNCHANGED notCP

CPNext ==
    \/ \E ok \in BOOLEAN : CPWalk(ok)
    \/ CPClose
    \/ \E w \in CPIds : CPTake(w)
    \/ \E w \in CPIds, ok \in BOOLEAN : CPExec(w, ok)
    \/ CPReturn

-----------------------------------------------------------------------------
(* Specifications *)

\* NewQueue(maxSize)
QueueInit ==
    /\ qMaxSize \in 1..MaxCap
    /\ qMessages = <<>>
    /\ qMu = 0
    /\ gpc = [g \in Goroutines |-> "idle"]
    /\ qAdded = <<>>
    /\ qNext = 1
    /\ SessionIdle
    /\ IPIdle
    /\ UIIdle
    /\ DFIdle
    /\ HIIdle
    /\ TSIdle
    /\ CLIdle
    /\ MLIdle
    /\ DRIdle
    /\ ORIdle
    /\ PGIdle
    /\ SNIdle
    /\ UCIdle
    /\ CPIdle

Init ==
    /\ SessionInit
    /\ QueueIdle
    /\ IPIdle
    /\ UIIdle
    /\ DFIdle
    /\ HIIdle
    /\ TSIdle
    /\ CLIdle
    /\ MLIdle
    /\ DRIdle
    /\ ORIdle
    /\ PGIdle
    /\ SNIdle
    /\ UCIdle
    /\ CPIdle

IPInit ==
    /\ InstallPackagesInit
    /\ QueueIdle
    /\ SessionIdle
    /\ UIIdle
    /\ DFIdle
    /\ HIIdle
    /\ TSIdle
    /\ CLIdle
    /\ MLIdle
    /\ DRIdle
    /\ ORIdle
    /\ PGIdle
    /\ SNIdle
    /\ UCIdle
    /\ CPIdle

UIStart ==
    /\ UIInit
    /\ QueueIdle
    /\ SessionIdle
    /\ IPIdle
    /\ DFIdle
    /\ HIIdle
    /\ TSIdle
    /\ CLIdle
    /\ MLIdle
    /\ DRIdle
    /\ ORIdle
    /\ PGIdle
    /\ SNIdle
    /\ UCIdle
    /\ CPIdle

DFStart ==
    /\ DFInit
    /\ QueueIdle
    /\ SessionIdle
    /\ IPIdle
    /\ UIIdle
    /\ HIIdle
    /\ TSIdle
    /\ CLIdle
    /\ MLIdle
    /\ DRIdle
    /\ ORIdle
    /\ PGIdle
    /\ SNIdle
    /\ UCIdle
    /\ CPIdle

HIStart ==
    /\ HIInit
    /\ QueueIdle
    /\ SessionIdle
    /\ IPIdle
    /\ UIIdle
    /\ DFIdle
    /\ TSIdle
    /\ CLIdle
    /\ MLIdle
    /\ DRIdle
    /\ ORIdle
    /\ PGIdle
    /\ SNIdle
    /\ UCIdle
    /\ CPIdle

TSStart ==
    /\ TSInit
    /\ QueueIdle
    /\ SessionIdle
    /\ IPIdle
    /\ UIIdle
    /\ DFIdle
    /\ HIIdle
    /\ CLIdle
    /\ MLIdle
    /\ DRIdle
    /\ ORIdle
    /\ PGIdle
    /\ SNIdle
    /\ UCIdle
    /\ CPIdle

CLStart ==
    /\ CLInit
    /\ QueueIdle
    /\ SessionIdle
    /\ IPIdle
    /\ UIIdle
    /\ DFIdle
    /\ HIIdle
    /\ TSIdle
    /\ MLIdle
    /\ DRIdle
    /\ ORIdle
    /\ PGIdle
    /\ SNIdle
    /\ UCIdle
    /\ CPIdle

MLStart ==
    /\ MLInit
    /\ QueueIdle
    /\ SessionIdle
    /\ IPIdle
    /\ UIIdle
    /\ DFIdle
    /\ HIIdle
    /\ TSIdle
    /\ CLIdle
    /\ DRIdle
    /\ ORIdle
    /\ PGIdle
    /\ SNIdle
    /\ UCIdle
    /\ CPIdle

DRStart ==
    /\ DRInit
    /\ QueueIdle
    /\ SessionIdle
    /\ IPIdle
    /\ UIIdle
    /\ DFIdle
    /\ HIIdle
    /\ TSIdle
    /\ CLIdle
    /\ MLIdle
    /\ ORIdle
    /\ PGIdle
    /\ SNIdle
    /\ UCIdle
    /\ CPIdle

ORStart ==
    /\ ORInit
    /\ QueueIdle
    /\ SessionIdle
    /\ IPIdle
    /\ UIIdle
    /\ DFIdle
    /\ HIIdle
    /\ TSIdle
    /\ CLIdle
    /\ MLIdle
    /\ DRIdle
    /\ PGIdle
    /\ SNIdle
    /\ UCIdle
    /\ CPIdle

PGStart ==
    /\ PGInit
    /\ QueueIdle
    /\ SessionIdle
    /\ IPIdle
    /\ UIIdle
    /\ DFIdle
    /\ HIIdle
    /\ TSIdle
    /\ CLIdle
    /\ MLIdle
    /\ DRIdle
    /\ ORIdle
    /\ SNIdle
    /\ UCIdle
    /\ CPIdle

SNStart ==
    /\ SNInit
    /\ QueueIdle
    /\ SessionIdle
    /\ IPIdle
    /\ UIIdle
    /\ DFIdle
    /\ HIIdle
    /\ TSIdle
    /\ CLIdle
    /\ MLIdle
    /\ DRIdle
    /\ ORIdle
    /\ PGIdle
    /\ UCIdle
    /\ CPIdle

UCStart ==
    /\ UCInit
    /\ QueueIdle
    /\ SessionIdle
    /\ IPIdle
    /\ UIIdle
    /\ DFIdle
    /\ HIIdle
    /\ TSIdle
    /\ CLIdle
    /\ MLIdle
    /\ DRIdle
    /\ ORIdle
    /\ PGIdle
    /\ SNIdle
    /\ CPIdle

CPStart ==
    /\ CPInit
    /\ QueueIdle
    /\ SessionIdle
    /\ IPIdle
    /\ UIIdle
    /\ DFIdle
    /\ HIIdle
    /\ TSIdle
    /\ CLIdle
    /\ MLIdle
    /\ DRIdle
    /\ ORIdle
    /\ PGIdle
    /\ SNIdle
    /\ UCIdle

Spec == Init /\ [][Next]_vars

SpecQueue == QueueInit /\ [][QueueNext]_vars

SpecIP == IPInit /\ [][IPNext]_vars

SpecUI == UIStart /\ [][UINext]_vars

SpecDotfiles == DFStart /\ [][DFNext]_vars

SpecInstall == HIStart /\ [][HINext]_vars

SpecSteps == TSStart /\ [][TSNext]_vars

SpecClassify == CLStart /\ [][CLNext]_vars

SpecLists == MLStart /\ [][MLNext]_vars

SpecDrain == DRStart /\ [][DRNext]_vars

SpecOrder == ORStart /\ [][ORNext]_vars

SpecProgress == PGStart /\ [][PGNext]_vars

SpecSnapshot == SNStart /\ [][SNNext]_vars

SpecClose == UCStart /\ [][UCNext]_vars

SpecCopy == CPStart /\ [][CPNext]_vars

-----------------------------------------------------------------------------
(* Claims about the queue *)

\* C1: for every capacity maxSize >= 1 and every interleaving of Add calls,
\* Size() <= maxSize whenever Size() can be read, i.e. after each Add returns.
C1_SizeWithinCapacity == (qMu = 0) => Size <= qMaxSize

\* C1 witness: an Add has returned from a trim and the queue is full.
C1_Witness ==
    /\ qMu = 0
    /\ Len(qAdded) > qMaxSize
    /\ Size = qMaxSize
    /\ qMaxSize >= 4

Overflowed == Len(qAdded) > qMaxSize

\* C2: once more than maxSize messages were added without a Clear, after every
\* Add the queue is prefix, one marker, suffix: the prefix the first maxSize/4
\* messages ever added, the suffix the latest ones in arrival order, and
\* |prefix| + |suffix| = maxSize - 1.
C2_ShapeAfterOverflow ==
    (qMu = 0 /\ Overflowed) =>
        LET firstQuarter == qMaxSize \div 4
            prefix == Take(qAdded, firstQuarter)
            suffix == LastN(qAdded, qMaxSize - 1 - firstQuarter)
        IN  /\ qMessages = prefix \o <<TruncationMarker>> \o suffix
            /\ Count(qMessages, TruncationMarker) = 1
            /\ Len(prefix) + Len(suffix) = qMaxSize - 1

\* C2 witness: the queue was trimmed at least twice with a non-empty prefix.
C2_Witness ==
    /\ qMu = 0
    /\ qMaxSize >= 4
    /\ Len(qAdded) >= qMaxSize + 2
    /\ qMessages[1] = 1

-----------------------------------------------------------------------------
(* Claims about conflict resolution *)

\* The dialog shows a conflict a command reported, and Enter answers it Skip.
SkipResolves ==
    /\ ConflictEnter
    /\ model.conflictOption = 0
    /\ hist.pendPkg # NoPkg

-----------------------------------------------------------------------------
(* Claims about the package-manager subprocess *)

Cancels ==
    \/ Quit
    \/ ConflictEsc
    \/ ConflictEnter /\ model.conflictOption = 3
    \/ PasswordEsc
    \/ Back /\ InConfirmation

\* C9: when Update returns from a cancel, no subprocess the session started
\* is running.
C9_CancelStopsSubprocess == [][Cancels => running' = {}]_vars

\* C10: a call whose deadline case is taken returns the timed-out error without
\* waiting on a subprocess that is still running, and when it has returned
\* neither the subprocess nor a process it forked is running.
C10_TimeoutLeavesNothingRunning ==
    /\ ipPc = "drain_timeout" => ipChild # "run"
    /\ ipResult = "timedout" => (ipChild # "run" /\ ipGroup = 0)

-----------------------------------------------------------------------------
(* Claims about failures *)

C12_OneCredentialRetryPerStep ==
    uiAuthFails >= 2 =>
        /\ uiPc # "prompt"
        /\ ~(uiPc = "ret" /\ uiOut.NeedsPassword)

-----------------------------------------------------------------------------
(* Claims about the end of the session *)

-----------------------------------------------------------------------------
(* Claims about installDotfiles *)

-----------------------------------------------------------------------------
(* Claims about Helper.Install *)

-----------------------------------------------------------------------------
(* Claims about totalSteps *)

-----------------------------------------------------------------------------
(* Claims about the progress counter *)

\* C17: within one installation session installProgress never decreases: the
\* value the program's Model holds after a step is greater than or equal to
\* the value it held before, as long as no new startInstallation has run.
C17_ProgressNeverDecreases ==
    [][sessions' = sessions => model'.installProgress >= model.installProgress]_vars

-----------------------------------------------------------------------------
(* Claims about the classification of output lines *)

\* C18: an output line that holds the conflict token in any letter case is
\* sent to the conflict path by the reader of InstallPackages, and AddMessage
\* never gives it the type warning, success or info, whatever error and
\* warning tokens the line also holds.
C18_ConflictAnyCase ==
    (clPc \in {"scanned", "added"} /\ clLine["conflict"] # "absent") =>
        /\ clConflictSent
        /\ clPc = "added" => clType \notin {"warning", "success", "info"}

-----------------------------------------------------------------------------
(* Claims about the messages slices *)

\* C19: the messages slice of Install never holds more than 50 entries and
\* that of InstallPackages never more than 41, at any point from the first
\* append to the returned slice.
C19_ListsCapped ==
    /\ mlFn = "Install" => mlLen <= 50
    /\ mlFn = "InstallPackages" => mlLen <= 41

-----------------------------------------------------------------------------
(* Claims about the active-process slot *)

-----------------------------------------------------------------------------
(* Claims about the input pipe *)

\* C21: the caller of InstallPackages never waits for its subprocess (in the
\* final select, the subprocess not yet reaped) while it still holds the
\* subprocess's input pipe open.
C21_StdinClosedBeforeWait ==
    (ipPc = "select" /\ ipResultCh = "empty") => ipStdin = "closed"


-----------------------------------------------------------------------------
(* Claims about the draining of the output pipes *)

\* C23: a subprocess whose output is piped never blocks for good on a full
\* stdout or stderr pipe: never is it left with output to write to a full
\* pipe that no reader is reading or will read, and no timer to end it.
C23_PipesAlwaysDrained ==
    ~(/\ drChild = "run"
      /\ ~HasTimer(drFn)
      /\ \E s \in Streams :
            /\ drToWrite[s] > 0
            /\ drPipe[s] = PipeCap
            /\ drReader[s] \in {"waiting", "stopped"})

-----------------------------------------------------------------------------
(* Claims about shared variables *)

\* C24: no variable is written by one goroutine while another goroutine can
\* read or write it without synchronization: the two readers of a subprocess
\* are never both inside their append to (or truncation of) the messages
\* slice.
C24_MessagesNeverRaced ==
    ~(/\ mlPc["stdout"] \in {"store", "trim"}
      /\ mlPc["stderr"] \in {"store", "trim"})

-----------------------------------------------------------------------------
(* Claims about the order of the retained lines *)

C26_TransitionOnlyWhenInstalled ==
    [][(model'.aurHelperInstalled /\ ~model.aurHelperInstalled) => helperInst']_vars

\* C27: if Helper.Install fails, the session ends failed carrying that error,
\* and Install is not invoked again automatically: once Install has returned
\* an error in a session, no command of that session calls installAURHelper.
C27_NoRetryAfterFailure ==
    [][(hist.failedIn # 0 /\ hist.failedIn = sessions /\ sessions' = sessions) =>
          \A i \in Chains :
              ~(chains[i].pc = "start" /\ chains'[i].pc = "aur_wait")]_vars

\* C28: when installAURHelper surfaces "installation timed out after 30
\* minutes", the helper clone/build subprocess started for that step has been
\* terminated: a step of installAURHelper that returns an error leaves no
\* call of Helper.Install, with its subprocess, running behind it.
C28_TimeoutStopsHelperBuild ==
    [][\A i \in Chains :
          (/\ chains[i].pc = "aur_wait"
           /\ chains'[i].pc = "ret"
           /\ chains'[i].out.kind = "error") => orphans' <= orphans]_vars

-----------------------------------------------------------------------------
(* Claims about the helper step's progress *)

\* C31: installProgress <= totalSteps in every reachable state of a session,
\* however many progress messages the helper-install step emits.
C31_ProgressWithinTotal == pgM.installProgress <= pgM.totalSteps

-----------------------------------------------------------------------------
(* Claims about the helper step's goroutines *)

\* C32: at most one Helper.Install invocation is in flight at any time:
\* installAURHelper never starts a second Install goroutine while an earlier
\* one has not returned.
C32_OneInstallInFlight ==
    [][\A i \in Chains :
          (chains[i].pc = "start" /\ chains'[i].pc = "aur_wait") => orphans = 0]_vars

-----------------------------------------------------------------------------
(* Claims about the password prompt *)

\* C33: no helper-install or package-install step starts before the user has
\* submitted the credential prompt raised by startInstallation, and the
\* package queue written by startInstallation is the one that
\* continueInstallation observes.
C33_PromptBeforeSteps ==
    snStep # "none" =>
        /\ snSubmitted
        /\ snSeen = snLocal.packagesToInstall

-----------------------------------------------------------------------------
(* Claims about the readers at the return of Helper.Install *)

\* C34: when Helper.Install returns its message list, both the stdout reader
\* and the stderr reader of the build subprocess have finished, so that no
\* goroutine appends to or replaces the list after the return.
C34_ReadersDoneAtReturn ==
    (mlFn = "Install" /\ mlReturned) => \A g \in Readers : mlPc[g] = "eof"

-----------------------------------------------------------------------------
(* Claims about the result of InstallPackages *)

\* C35: the result of InstallPackages (success, conflict error, plain failure)
\* is a function of the subprocess's output lines and exit status only: with
\* exit status 0 it is success, otherwise the conflict error when a line with
\* "conflict" was put out and the plain failure when none was, under every
\* scheduling of the exit-waiter, the readers and the final select.
C35_ResultDetermined ==
    (/\ ipVariant = "pipes"
     /\ ipPc = "returned"
     /\ ipChild \in {"exited", "failed"}
     /\ ipResult \in {"success", "conflict", "failed"}) =>
        ipResult = ResultOf(IF ipChild = "exited" THEN "nil" ELSE "err", ipConflict)

-----------------------------------------------------------------------------
(* Claims about the slot after InstallPackages *)

\* C36: IsPackageManagerActive() is true only while a package-manager
\* subprocess is running: once the InstallPackages call that filled the slot
\* has returned, with any outcome, the slot is empty.
C36_SlotEmptyAfterReturn ==
    currentCmd # 0 => chains[currentCmd].pc = "ip_wait"

-----------------------------------------------------------------------------
(* Claims about updateCh *)

\* C37: in installDotfiles no goroutine sends on updateCh after it has been
\* closed: by the time any close(updateCh) executes, both the stdout reader
\* and the stderr reader of the clone have stopped sending.
C37_NoSendAfterClose ==
    /\ ~ucPanic
    /\ ucClosed => \A s \in Streams : ucReader[s] # "send" /\ ucBuf[s] = 0

-----------------------------------------------------------------------------
(* Claims about CopyDirWithLowMemory *)

\* C38: CopyDirWithLowMemory always terminates: the walker is never left
\* blocked on a full tasks channel that no worker will read again; and it
\* returns a non-nil error whenever a task failed.
C38_WalkerNeverStuck ==
    /\ ~(/\ cpWalker = "walk"
         /\ cpSent < Len(cpTree)
         /\ cpSent - cpTaken = CPTaskCap
         /\ \A w \in CPIds : cpWorker[w].pc = "exited")
    /\ (cpWalker = "returned" /\ cpErrors > 0) => cpResult = "error"

\* A task has been taken from the channel and no worker is still at it.
CPCompleted(j) ==
    /\ j <= cpTaken
    /\ \A w \in CPIds : ~(cpWorker[w].pc = "busy" /\ cpWorker[w].task = j)

\* C39: with any number of workers, the task that copies a file or creates a
\* subdirectory is executed only after the task that creates its parent
\* directory has completed.
C39_ParentTaskFirst ==
    \A w \in CPIds :
        cpWorker[w].pc = "busy" =>
            LET p == cpTree[cpWorker[w].task].parent
            IN  p # 0 => CPCompleted(p)

====
